---- MODULE Spec2Model ----
(***************************************************************************)
(* A model of rlox: the string store ("GC"), the bytecode chunk, the       *)
(* single-pass Pratt compiler and the stack VM.                            *)
(*                                                                         *)
(* Conventions.  Option<T> is a sequence: None is <<>> and Some(x) is      *)
(* <<x>>.  A Rust string is a sequence of one-character strings, so that   *)
(* slicing and concatenation are the sequence operations.  f64 numbers are *)
(* modelled by the integers (the programs explored never divide).  A       *)
(* function that returns a value and changes state returns a record        *)
(* [c |-> state, ret |-> value].  A panic stops the machine: status goes   *)
(* to "panic" and every later operation leaves the state alone; a loop     *)
(* whose body changes nothing sets status to "hang".                       *)
(***************************************************************************)
EXTENDS Integers, Sequences, FiniteSets, TLC

VARIABLES
    ACTIVE_GC,   \* gc.rs:44       static mut ACTIVE_GC: Option<GC>
    handles,     \* gc.rs:41       number of live ActiveGC tokens
    gc_call,     \* the last call made on the gc API and how it ended
    chunk,       \* chunk.rs:104   a Chunk (interpret's `chunk`, vm.rs:48)
    chunk_ret,   \* the last call made on the chunk API and what it returned
    phase,       \* where VM::interpret is
    source,      \* vm.rs:46      the source text interpret was called with
    c,           \* compiler.rs:22 the Compiler (with its Parser and Scanner)
    vm,          \* vm.rs:23       the VmWithChunk
    result,      \* what the last interpret call returned
    repl         \* main.rs:34    where repl() is, and what is left on stdin

vars ==
    <<ACTIVE_GC, handles, gc_call, chunk, chunk_ret, phase, source, c, vm, result,
      repl>>

----------------------------------------------------------------------------
(* Bounds of the model *)

\* Most fragments of source text in one program.
MaxFrags == 4
\* Most calls of add_constant made on the free-standing chunk.
MaxAdds == 258
\* Most bytes written to the free-standing chunk.
MaxCode == 3
\* Most ActiveGC tokens alive at once.
MaxHandles == 3
\* Most repetitions of the statement of a long program.
MaxRepeat == 257
\* Most fragments in one program of nested blocks.
MaxScopeFrags == 6
\* The greatest integer literal of a one-statement program.
MaxNum == 3
\* Most lines waiting on the standard input of the repl.
MaxLines == 2
\* Most prompts the repl writes.
MaxPrompts == 4

(* Program constants *)

U8_COUNT == 256
U8_MAX == U8_COUNT - 1

None == <<>>
Some(x) == <<x>>
IsSome(o) == o # <<>>
Unwrap(o) == o[1]

Last(s) == s[Len(s)]
Front(s) == SubSeq(s, 1, Len(s) - 1)

----------------------------------------------------------------------------
(* value.rs *)

Nil == [tag |-> "Nil", b |-> FALSE, n |-> 0, s |-> <<>>]
Boolean(x) == [tag |-> "Boolean", b |-> x, n |-> 0, s |-> <<>>]
Number(x) == [tag |-> "Number", b |-> FALSE, n |-> x, s |-> <<>>]
LoxString(x) == [tag |-> "LoxString", b |-> FALSE, n |-> 0, s |-> x]

is_falsy(v) == v.tag = "Nil" \/ (v.tag = "Boolean" /\ ~v.b)

to_str(v) == IF v.tag = "LoxString" THEN Some(v.s) ELSE None

equal(a, b) ==
    CASE a.tag = "Number" /\ b.tag = "Number" -> a.n = b.n
      [] a.tag = "Boolean" /\ b.tag = "Boolean" -> a.b = b.b
      [] a.tag = "Nil" /\ b.tag = "Nil" -> TRUE
      [] a.tag = "LoxString" /\ b.tag = "LoxString" -> a.s = b.s
      [] OTHER -> FALSE

DigitChar(d) == <<"0", "1", "2", "3", "4", "5", "6", "7", "8", "9">>[d + 1]

RECURSIVE NatToText(_)
NatToText(n) ==
    IF n < 10 THEN <<DigitChar(n)>>
    ELSE NatToText(n \div 10) \o <<DigitChar(n % 10)>>

\* impl Display for Value
display(v) ==
    CASE v.tag = "Nil" -> <<"n", "i", "l">>
      [] v.tag = "Number" ->
            IF v.n < 0 THEN <<"-">> \o NatToText(0 - v.n) ELSE NatToText(v.n)
      [] v.tag = "Boolean" ->
            IF v.b THEN <<"t", "r", "u", "e">> ELSE <<"f", "a", "l", "s", "e">>
      [] OTHER -> v.s

\* str::parse::<f64> on the text of a Number lexeme, [0-9]+ (no fraction
\* part occurs in the programs explored).
DigitValue(ch) ==
    CHOOSE d \in 0..9 : DigitChar(d) = ch

RECURSIVE parse_f64(_)
parse_f64(text) ==
    IF Len(text) = 1 THEN DigitValue(text[1])
    ELSE 10 * parse_f64(Front(text)) + DigitValue(Last(text))

----------------------------------------------------------------------------
(* gc.rs.  A GC is its set of strings, with refs, the address of the       *)
(* buffer of each stored String; the static holds an Option<GC>.           *)

GC_default == [strings |-> {}, refs |-> <<>>]

\* The address of the buffer of a String that is not in the set: one that no
\* stored String has.
OwnedAddress(gc) ==
    CHOOSE a \in 1..(Cardinality(gc.strings) + 1) :
        /\ \A t \in gc.strings : gc.refs[t] # a
        /\ \A b \in 1..(a - 1) : \E t \in gc.strings : gc.refs[t] = b

\* A HashSet with `owned` put in, at the address of its own buffer.
Stored(gc, owned) ==
    [strings |-> gc.strings \cup {owned},
     refs |-> [t \in gc.strings \cup {owned} |->
                 IF t = owned THEN OwnedAddress(gc) ELSE gc.refs[t]]]

\* GC::store_string with HashSet::replace in place of HashSet::insert: the
\* String handed in takes the place of an equal one already stored.
GC_store_string_replace(gc, owned) ==
    [gc |-> Stored(gc, owned), ret |-> owned, ref |-> OwnedAddress(gc)]

\* GC::store_string: insert (which keeps an equal String already stored and
\* drops the new one), then hand out the stored copy: its text as ret, the
\* address it lies at as ref.
GC_store_string(gc, owned) ==
    LET inserted == IF owned \in gc.strings THEN gc ELSE Stored(gc, owned)
    IN  [gc |-> inserted, ret |-> owned, ref |-> inserted.refs[owned]]

GC_n_strings(gc) == Cardinality(gc.strings)

\* GC::into_active_gc: overwrite the static, whatever it held.
into_active_gc(gc, static) == Some(gc)

\* ActiveGC::install
install(static) == into_active_gc(GC_default, static)

TriedToGet == "Tried to get active GC, but it's not installed"
TryingToDrop == "Trying to drop active GC, but it's not installed"

\* ActiveGC::get with get_or_insert_with(GC::default) in place of
\* as_mut().expect(..): an interner is made when none is installed.
ActiveGC_get_or_insert(static) ==
    [panic |-> "", gc |-> IF IsSome(static) THEN static ELSE Some(GC_default)]

\* ActiveGC::get: as_mut() on the static, then expect(..); as [panic, gc]
ActiveGC_get(static) ==
    [panic |-> IF IsSome(static) THEN "" ELSE TriedToGet, gc |-> static]

\* ActiveGC::store_string, as [static, panic, ret]
ActiveGC_store_string(static, s) ==
    LET g == ActiveGC_get(static) IN
    IF g.panic # ""
    THEN [static |-> static, panic |-> g.panic, ret |-> <<>>, ref |-> 0]
    ELSE LET r == GC_store_string(Unwrap(g.gc), s)
         IN  [static |-> Some(r.gc), panic |-> "", ret |-> r.ret, ref |-> r.ref]

\* ActiveGC::n_strings, as [panic, ret]
ActiveGC_n_strings(static) ==
    LET g == ActiveGC_get(static) IN
    IF g.panic # "" THEN [panic |-> g.panic, ret |-> 0]
    ELSE [panic |-> "", ret |-> GC_n_strings(Unwrap(g.gc))]

\* Drop for ActiveGC with as_ref() in place of take(): the static is left.
ActiveGC_drop_as_ref(static) ==
    [static |-> static, panic |-> IF IsSome(static) THEN "" ELSE TryingToDrop]

\* Drop for ActiveGC: take() the static; expect(..) panics on None.
\* As [static, panic].
ActiveGC_drop(static) ==
    [static |-> None, panic |-> IF IsSome(static) THEN "" ELSE TryingToDrop]

----------------------------------------------------------------------------
(* chunk.rs *)

OpCodes ==
    <<"Constant", "Nil", "True", "False", "Pop", "GetLocal", "SetLocal",
      "GetGlobal", "DefineGlobal", "SetGlobal", "Equal", "Greater", "Less",
      "Add", "Subtract", "Multiply", "Divide", "Not", "Negate", "Print",
      "Return">>

\* `opcode as u8`: the position of the variant in the enum.
as_u8(opcode) == (CHOOSE i \in 1..Len(OpCodes) : OpCodes[i] = opcode) - 1

\* BytecodeEntry::as_opcode: TryFrom<u8>, None for a byte that is no opcode.
as_opcode(byte) == IF byte < Len(OpCodes) THEN Some(OpCodes[byte + 1]) ELSE None

Chunk_default == [code |-> <<>>, constants |-> <<>>, lines |-> <<>>]

\* Chunk::write that pushes the byte and no line.
write_code_only(ch, payload, line) == [ch EXCEPT !.code = Append(@, payload)]

\* Chunk::write
write(ch, payload, line) ==
    [ch EXCEPT !.code = Append(@, payload), !.lines = Append(@, line)]

\* Chunk::write_opcode; the WrittenOpcode it returns carries `line`.
write_opcode(ch, opcode, line) == write(ch, as_u8(opcode), line)

\* WrittenOpcode::with_operand
with_operand(ch, line, index) == write(ch, index, line)

\* `index as u8` in place of u8::try_from(index).ok(): the index wraps.
u8_wrapping(index) == Some(index % U8_COUNT)

\* u8::try_from(index).ok()
u8_try_from(index) == IF index <= U8_MAX THEN Some(index) ELSE None

\* Chunk::add_constant that checks the index and pushes nothing.
add_constant_unpushed(ch, value) ==
    [chunk |-> ch, ret |-> u8_try_from(Len(ch.constants))]

\* Chunk::add_constant: the value is pushed first, the index checked after.
add_constant(ch, value) ==
    [chunk |-> [ch EXCEPT !.constants = Append(@, value)],
     ret |-> u8_try_from(Len(ch.constants))]

\* Chunk::get(offset), as the byte or None
get(ch, offset) ==
    IF offset >= 0 /\ offset < Len(ch.code) THEN Some(ch.code[offset + 1]) ELSE None

\* Chunk::line_number_for
line_number_for(ch, offset) ==
    IF offset >= 0 /\ offset < Len(ch.lines) THEN Some(ch.lines[offset + 1]) ELSE None

\* BytecodeEntry::resolve_constant
resolve_constant(ch, byte) ==
    IF byte < Len(ch.constants) THEN Some(ch.constants[byte + 1]) ELSE None

----------------------------------------------------------------------------
(* scanner.rs.  The source text is modelled after its division in lexemes: *)
(* a sequence of items [token, text], with the item NL for a line break    *)
(* between lexemes (skip_whitespace counts it).  An item with token Error  *)
(* stands for text the scanner rejects; its text is the scanner's message. *)

NL == [token |-> "NL", text |-> <<>>]

Scanner_new(text) == [source |-> text, line |-> 1]

\* Scanner::skip_whitespace
RECURSIVE skip_whitespace(_)
skip_whitespace(sc) ==
    IF sc.source # <<>> /\ Head(sc.source) = NL
    THEN skip_whitespace([source |-> Tail(sc.source), line |-> sc.line + 1])
    ELSE sc

\* Scanner::scan_token, as [scanner, lexeme]
scan_token(sc0) ==
    LET sc == skip_whitespace(sc0) IN
    IF sc.source = <<>>
    THEN [scanner |-> sc,
          lexeme |-> [token |-> "Eof", text |-> <<>>, line |-> sc.line]]
    ELSE [scanner |-> [sc EXCEPT !.source = Tail(@)],
          lexeme |-> [token |-> Head(sc.source).token,
                      text |-> Head(sc.source).text,
                      line |-> sc.line]]

\* Scanner::make_sentinel
make_sentinel(message) == [token |-> "Error", text |-> <<message>>, line |-> 0]

----------------------------------------------------------------------------
(* compiler.rs: Precedence *)

PrecNone == 0
PrecAssignment == 1
PrecOr == 2
PrecAnd == 3
PrecEquality == 4
PrecComparison == 5
PrecTerm == 6
PrecFactor == 7
PrecUnary == 8
PrecCall == 9
PrecPrimary == 10

\* Precedence::higher_precedence that answers the precedence it was given.
higher_precedence_same(p) == Some(p)

\* Precedence::higher_precedence, None when the Primary arm panics
higher_precedence(p) == IF p = PrecPrimary THEN None ELSE Some(p + 1)

rule(prefix, infix, precedence) ==
    [prefix |-> prefix, infix |-> infix, precedence |-> precedence]

\* get_rule: the Pratt table.  A ParserFn is named by a string.
get_rule(token) ==
    CASE token = "LeftParen" -> rule(Some("grouping"), None, PrecNone)
      [] token = "Minus" -> rule(Some("unary"), Some("binary"), PrecTerm)
      [] token = "Plus" -> rule(None, Some("binary"), PrecTerm)
      [] token = "Slash" -> rule(None, Some("binary"), PrecFactor)
      [] token = "Star" -> rule(None, Some("binary"), PrecFactor)
      [] token = "Bang" -> rule(Some("unary"), None, PrecNone)
      [] token = "BangEqual" -> rule(None, Some("binary"), PrecEquality)
      [] token = "EqualEqual" -> rule(None, Some("binary"), PrecEquality)
      [] token = "Greater" -> rule(None, Some("binary"), PrecComparison)
      [] token = "GreaterEqual" -> rule(None, Some("binary"), PrecComparison)
      [] token = "Less" -> rule(None, Some("binary"), PrecComparison)
      [] token = "LessEqual" -> rule(None, Some("binary"), PrecComparison)
      [] token = "Identifier" -> rule(Some("variable"), None, PrecNone)
      [] token = "StrLiteral" -> rule(Some("string"), None, PrecNone)
      [] token = "Number" -> rule(Some("number"), None, PrecNone)
      [] token = "False" -> rule(Some("literal"), None, PrecNone)
      [] token = "Nil" -> rule(Some("literal"), None, PrecNone)
      [] token = "True" -> rule(Some("literal"), None, PrecNone)
      [] OTHER -> rule(None, None, PrecNone)

----------------------------------------------------------------------------
(* compiler.rs: Parser.  The record c holds the Compiler, its Parser and   *)
(* Scanner, what was written to stderr, and gc, the static ACTIVE_GC as    *)
(* the compiler sees it.                                                   *)

Running(c0) == c0.status = "run"

Panic(c0, message) ==
    IF Running(c0) THEN [c0 EXCEPT !.status = "panic", !.panic_msg = message] ELSE c0

\* Parser::error_at without its early return in panic mode.
error_at_in_panic_mode(c0, lexeme, message) ==
    IF ~Running(c0) THEN c0
    ELSE [c0 EXCEPT
            !.panic_mode = TRUE,
            !.had_error = TRUE,
            !.stderr = Append(@,
                [line |-> lexeme.line,
                 at |-> CASE lexeme.token = "Eof" -> <<" at end">>
                          [] lexeme.token = "Error" -> <<>>
                          [] OTHER -> <<" at '">> \o lexeme.text \o <<"'">>,
                 message |-> message])]

\* Parser::error_at
error_at(c0, lexeme, message) ==
    IF ~Running(c0) \/ c0.panic_mode THEN c0
    ELSE [c0 EXCEPT
            !.panic_mode = TRUE,
            !.had_error = TRUE,
            !.stderr = Append(@,
                [line |-> lexeme.line,
                 at |-> CASE lexeme.token = "Eof" -> <<" at end">>
                          [] lexeme.token = "Error" -> <<>>
                          [] OTHER -> <<" at '">> \o lexeme.text \o <<"'">>,
                 message |-> message])]

\* Parser::error
error(c0, message) == error_at(c0, c0.previous, message)

\* Parser::error_at_current
error_at_current(c0, message) == error_at(c0, c0.current, message)

\* Parser::advance: the loop that scans until a lexeme is not an Error
RECURSIVE advance_loop(_)
advance_loop(c0) ==
    LET r == scan_token(c0.scanner)
        c1 == [c0 EXCEPT !.scanner = r.scanner, !.current = r.lexeme]
    IN  IF r.lexeme.token # "Error" THEN c1
        ELSE advance_loop(error_at_current(c1, r.lexeme.text))

\* Parser::advance
advance(c0) ==
    IF ~Running(c0) THEN c0 ELSE advance_loop([c0 EXCEPT !.previous = c0.current])

\* Parser::check
check(c0, token) == c0.current.token = token

\* Parser::consume
consume(c0, desired_token, message) ==
    IF check(c0, desired_token) THEN advance(c0) ELSE error_at_current(c0, <<message>>)

\* Parser::match_and_advance, as [c, ret]
match_and_advance(c0, desired_token) ==
    IF check(c0, desired_token) THEN [c |-> advance(c0), ret |-> TRUE]
    ELSE [c |-> c0, ret |-> FALSE]

SyncTokens == {"Class", "Fun", "Var", "For", "If", "While", "Print", "Return"}

\* One pass of the loop of Parser::synchronize leaves the parser where it
\* was: the loop is left on its first pass or never.
synchronize_returns(c0) ==
    \/ c0.current.token = "Eof"
    \/ c0.previous.token = "Semicolon"
    \/ c0.current.token \in SyncTokens

\* Parser::synchronize
synchronize(c0) ==
    IF ~Running(c0) THEN c0
    ELSE IF synchronize_returns(c0) THEN [c0 EXCEPT !.panic_mode = FALSE]
    ELSE [c0 EXCEPT !.panic_mode = FALSE, !.status = "hang"]

\* Parser::new and Compiler::new
Compiler_new(text, gc, debug_assertions) ==
    LET first == scan_token(Scanner_new(text)) IN
    [scanner |-> first.scanner,
     previous |-> make_sentinel("<before first token>"),
     current |-> first.lexeme,
     had_error |-> FALSE,
     panic_mode |-> FALSE,
     compiling_chunk |-> Chunk_default,
     locals |-> <<>>,
     scope_depth |-> 0,
     status |-> "run",
     panic_msg |-> "",
     stderr |-> <<>>,
     debug_assertions |-> debug_assertions,
     gc |-> gc]

----------------------------------------------------------------------------
(* compiler.rs: Compiler *)

\* Compiler::emit_instruction
emit_instruction(c0, opcode) ==
    IF ~Running(c0) THEN c0
    ELSE [c0 EXCEPT !.compiling_chunk = write_opcode(@, opcode, c0.previous.line)]

\* emit_instruction(..).with_operand(..): the WrittenOpcode holds the line
\* of the opcode, which is the line of the parser's previous lexeme.
emit_with_operand(c0, opcode, operand) ==
    IF ~Running(c0) THEN c0
    ELSE [c0 EXCEPT !.compiling_chunk =
            with_operand(write_opcode(@, opcode, c0.previous.line),
                         c0.previous.line, operand)]

\* Compiler::emit_instructions
emit_instructions(c0, op1, op2) == emit_instruction(emit_instruction(c0, op1), op2)

\* Compiler::emit_return
emit_return(c0) == emit_instruction(c0, "Return")

\* Compiler::make_constant, as [c, ret]
make_constant(c0, value) ==
    IF ~Running(c0) THEN [c |-> c0, ret |-> 0]
    ELSE LET r == add_constant(c0.compiling_chunk, value)
             c1 == [c0 EXCEPT !.compiling_chunk = r.chunk]
         IN  IF IsSome(r.ret) THEN [c |-> c1, ret |-> Unwrap(r.ret)]
             ELSE [c |-> error(c1, <<"Too many constants in one chunk">>), ret |-> 0]

\* impl From<&str> for Value, through ActiveGC::store_string; as [c, ret]
Value_from_str(c0, borrowed) ==
    IF ~Running(c0) THEN [c |-> c0, ret |-> Nil]
    ELSE LET r == ActiveGC_store_string(c0.gc, borrowed) IN
         IF r.panic # "" THEN [c |-> Panic(c0, r.panic), ret |-> Nil]
         ELSE [c |-> [c0 EXCEPT !.gc = r.static], ret |-> LoxString(r.ret)]

\* Compiler::emit_constant
emit_constant(c0, value) ==
    LET r == make_constant(c0, value) IN emit_with_operand(r.c, "Constant", r.ret)

\* Compiler::identifier_constant, as [c, ret]
identifier_constant(c0, lexeme) ==
    LET v == Value_from_str(c0, lexeme.text) IN make_constant(v.c, v.ret)

\* Compiler::begin_scope
begin_scope(c0) ==
    IF ~Running(c0) THEN c0 ELSE [c0 EXCEPT !.scope_depth = @ + 1]

\* Local::is_uninitialized that answers false for every local.
is_uninitialized_never(local) == FALSE

\* Local::is_uninitialized
is_uninitialized(local) == ~IsSome(local.depth)

\* Local::in_outer_scope with `depth <= scope_depth` in place of
\* `depth < scope_depth`.
in_outer_scope_or_this(local, scope_depth) ==
    IsSome(local.depth) /\ Unwrap(local.depth) <= scope_depth

\* Local::in_outer_scope
in_outer_scope(local, scope_depth) ==
    IsSome(local.depth) /\ Unwrap(local.depth) < scope_depth

\* Compiler::has_locals_beyond_current_scope with >= for >.
has_locals_at_current_scope(c0) ==
    /\ c0.locals # <<>>
    /\ IsSome(Last(c0.locals).depth)
    /\ Unwrap(Last(c0.locals).depth) >= c0.scope_depth

\* Compiler::has_locals_beyond_current_scope
has_locals_beyond_current_scope(c0) ==
    /\ c0.locals # <<>>
    /\ IsSome(Last(c0.locals).depth)
    /\ Unwrap(Last(c0.locals).depth) > c0.scope_depth

\* Compiler::end_scope: the loop that drops the locals of the scope left
RECURSIVE end_scope_loop(_)
end_scope_loop(c0) ==
    IF Running(c0) /\ has_locals_beyond_current_scope(c0)
    THEN end_scope_loop(emit_instruction([c0 EXCEPT !.locals = Front(@)], "Pop"))
    ELSE c0

\* Compiler::end_scope
end_scope(c0) ==
    IF ~Running(c0) THEN c0
    ELSE IF ~(c0.scope_depth > 0)
    THEN Panic(c0, "assertion failed: self.scope_depth > 0")
    ELSE end_scope_loop([c0 EXCEPT !.scope_depth = @ - 1])

\* Compiler::resolve_local that scans the locals oldest first: the first
\* declared local of the name wins.
resolve_local_oldest_first(c0, name, i) ==
    LET named == {j \in 1..i : c0.locals[j].name.text = name.text}
        first == CHOOSE j \in named : \A k \in named : j <= k
    IN  IF named = {} THEN [c |-> c0, ret |-> None]
        ELSE [c |-> IF is_uninitialized(c0.locals[first])
                    THEN error(c0, <<"Cannot use '">> \o name.text
                                       \o <<"' in its own initializer">>)
                    ELSE c0,
              ret |-> u8_try_from(first - 1)]

\* Compiler::resolve_local: the loop, from local number i down; as [c, ret].
\* (A message's backquotes are written as ' here.)
RECURSIVE resolve_local_from(_, _, _)
resolve_local_from(c0, name, i) ==
    IF i = 0 THEN [c |-> c0, ret |-> None]
    ELSE IF c0.locals[i].name.text = name.text
    THEN [c |-> IF is_uninitialized(c0.locals[i])
                THEN error(c0, <<"Cannot use '">> \o name.text
                                   \o <<"' in its own initializer">>)
                ELSE c0,
          ret |-> u8_try_from(i - 1)]
    ELSE resolve_local_from(c0, name, i - 1)

\* Compiler::resolve_local, as [c, ret]
resolve_local(c0, name) ==
    IF ~Running(c0) THEN [c |-> c0, ret |-> None]
    ELSE resolve_local_from(c0, name, Len(c0.locals))

\* Compiler::add_local
add_local(c0, name) ==
    IF ~Running(c0) THEN c0
    ELSE IF Len(c0.locals) >= U8_COUNT
    THEN error(c0, <<"Internal limit reached: too many variables declared">>)
    ELSE IF name.token # "Identifier"
    THEN Panic(c0, "assertion failed: Token::Identifier == name.token()")
    ELSE [c0 EXCEPT !.locals = Append(@, [name |-> name, depth |-> None])]

\* Compiler::declare_variable: the loop over the locals of this scope
RECURSIVE declare_variable_from(_, _, _)
declare_variable_from(c0, name, i) ==
    IF i = 0 \/ in_outer_scope(c0.locals[i], c0.scope_depth) THEN c0
    ELSE declare_variable_from(
            IF name.text = c0.locals[i].name.text
            THEN error(c0, <<"Already a variable called '">> \o name.text
                               \o <<"' in this scope">>)
            ELSE c0,
            name, i - 1)

\* Compiler::declare_variable
declare_variable(c0) ==
    IF ~Running(c0) \/ c0.scope_depth = 0 THEN c0
    ELSE add_local(declare_variable_from(c0, c0.previous, Len(c0.locals)),
                   c0.previous)

\* Compiler::parse_variable, as [c, ret]
parse_variable(c0, error_message) ==
    LET c1 == declare_variable(consume(c0, "Identifier", error_message)) IN
    IF c1.scope_depth > 0 THEN [c |-> c1, ret |-> 0]
    ELSE identifier_constant(c1, c1.previous)

\* cfg!(debug_assertions): debug_assert! panics in a build with debug
\* assertions and is compiled out of a release build.
\* Local::initialize_scope_with on the last local (Compiler::mark_initialized)
mark_initialized(c0) ==
    IF ~Running(c0) THEN c0
    ELSE IF c0.locals = <<>>
    THEN Panic(c0, "called Option::unwrap() on a None value")
    ELSE IF c0.debug_assertions /\ ~is_uninitialized(Last(c0.locals))
    THEN Panic(c0, "assertion failed: self.is_uninitialized()")
    ELSE [c0 EXCEPT !.locals[Len(c0.locals)].depth = Some(c0.scope_depth)]

\* Compiler::define_variable
define_variable(c0, global) ==
    IF c0.scope_depth > 0 THEN mark_initialized(c0)
    ELSE emit_with_operand(c0, "DefineGlobal", global)

----------------------------------------------------------------------------
(* compiler.rs: the Pratt parser *)

RECURSIVE parse_precedence(_, _)

\* Compiler::expression
expression(c0) == parse_precedence(c0, PrecAssignment)

\* grouping
grouping(c0, can_assign) ==
    consume(expression(c0), "RightParen", "Expect ')' after grouping.")

\* number
number(c0, can_assign) == emit_constant(c0, Number(parse_f64(c0.previous.text)))

\* unary
unary(c0, can_assign) ==
    LET operator == c0.previous.token
        c1 == parse_precedence(c0, PrecUnary)
    IN  CASE operator = "Bang" -> emit_instruction(c1, "Not")
          [] operator = "Minus" -> emit_instruction(c1, "Negate")
          [] OTHER -> Panic(c1, "unreachable")

\* binary
binary(c0, can_assign) ==
    LET operator == c0.previous.token
        higher == higher_precedence(get_rule(operator).precedence)
        c1 == IF IsSome(higher) THEN parse_precedence(c0, Unwrap(higher))
              ELSE Panic(c0, "Tried to get higher precedence than primary")
    IN  CASE operator = "BangEqual" -> emit_instructions(c1, "Equal", "Not")
          [] operator = "EqualEqual" -> emit_instruction(c1, "Equal")
          [] operator = "Greater" -> emit_instruction(c1, "Greater")
          [] operator = "GreaterEqual" -> emit_instructions(c1, "Less", "Not")
          [] operator = "Less" -> emit_instruction(c1, "Less")
          [] operator = "LessEqual" -> emit_instructions(c1, "Greater", "Not")
          [] operator = "Plus" -> emit_instruction(c1, "Add")
          [] operator = "Minus" -> emit_instruction(c1, "Subtract")
          [] operator = "Star" -> emit_instruction(c1, "Multiply")
          [] operator = "Slash" -> emit_instruction(c1, "Divide")
          [] OTHER -> Panic(c1, "unreachable")

\* literal
literal(c0, can_assign) ==
    CASE c0.previous.token = "False" -> emit_instruction(c0, "False")
      [] c0.previous.token = "Nil" -> emit_instruction(c0, "Nil")
      [] c0.previous.token = "True" -> emit_instruction(c0, "True")
      [] OTHER -> Panic(c0, "unreachable")

\* string: the text of the lexeme without its quotes
string(c0, can_assign) ==
    LET lit == c0.previous.text
        v == Value_from_str(c0, SubSeq(lit, 2, Len(lit) - 1))
    IN  emit_constant(v.c, v.ret)

\* Compiler::named_variable
named_variable(c0, name, can_assign) ==
    LET loc == resolve_local(c0, name)
        glob == identifier_constant(loc.c, name)
        is_local == IsSome(loc.ret)
        c1 == IF is_local THEN loc.c ELSE glob.c
        arg == IF is_local THEN Unwrap(loc.ret) ELSE glob.ret
        get_op == IF is_local THEN "GetLocal" ELSE "GetGlobal"
        set_op == IF is_local THEN "SetLocal" ELSE "SetGlobal"
        m == match_and_advance(c1, "Equal")
    IN  IF ~Running(c0) THEN c0
        ELSE IF can_assign /\ m.ret
        THEN emit_with_operand(expression(m.c), set_op, arg)
        ELSE emit_with_operand(c1, get_op, arg)

\* variable
variable(c0, can_assign) == named_variable(c0, c0.previous, can_assign)

\* A call through a ParserFn of the rule table
call_parser_fn(fn, c0, can_assign) ==
    CASE fn = "grouping" -> grouping(c0, can_assign)
      [] fn = "unary" -> unary(c0, can_assign)
      [] fn = "binary" -> binary(c0, can_assign)
      [] fn = "number" -> number(c0, can_assign)
      [] fn = "string" -> string(c0, can_assign)
      [] fn = "literal" -> literal(c0, can_assign)
      [] fn = "variable" -> variable(c0, can_assign)

\* Compiler::parse_precedence: the loop over the infix operators
RECURSIVE parse_infix_loop(_, _, _)
parse_infix_loop(c0, precedence, can_assign) ==
    IF ~Running(c0) \/ ~(precedence <= get_rule(c0.current.token).precedence)
    THEN c0
    ELSE LET c1 == advance(c0)
             infix_rule == get_rule(c1.previous.token).infix
         IN  IF ~IsSome(infix_rule)
             THEN Panic(c1, "a rule with a defined precedence must always have an infix rule")
             ELSE parse_infix_loop(call_parser_fn(Unwrap(infix_rule), c1, can_assign),
                                   precedence, can_assign)

\* Compiler::parse_precedence
parse_precedence(c0, precedence) ==
    IF ~Running(c0) THEN c0
    ELSE LET c1 == advance(c0)
             can_assign == precedence <= PrecAssignment
             prefix_rule == get_rule(c1.previous.token).prefix
         IN  IF IsSome(prefix_rule)
             THEN parse_infix_loop(call_parser_fn(Unwrap(prefix_rule), c1, can_assign),
                                   precedence, can_assign)
             ELSE error(c1, <<"Could not figure out how to understand symbol in this context">>)

----------------------------------------------------------------------------
(* compiler.rs: statements *)

\* Compiler::var_statement
var_statement(c0) ==
    LET pv == parse_variable(c0, "need a variable name after var")
        m == match_and_advance(pv.c, "Equal")
        c1 == IF m.ret THEN expression(m.c) ELSE emit_instruction(m.c, "Nil")
        c2 == consume(c1, "Semicolon", "expect ; after this variable declaration")
    IN  define_variable(c2, pv.ret)

\* Compiler::expression_statement
expression_statement(c0) ==
    emit_instruction(
        consume(expression(c0), "Semicolon", "expected semicolon to end this statement"),
        "Pop")

\* Compiler::print_statement
print_statement(c0) ==
    emit_instruction(
        consume(expression(c0), "Semicolon", "expected semicolon to end print statement"),
        "Print")

\* Compiler::declaration, its end: synchronize after an error
declaration_end(c0) == IF c0.panic_mode THEN synchronize(c0) ELSE c0

\* Compiler::declaration with Compiler::statement, for every statement that
\* is not a block; for a block, up to the call of block(): the declarations
\* of the block and its end are the steps that follow.
declaration(c0) ==
    LET mvar == match_and_advance(c0, "Var")
        mprint == match_and_advance(c0, "Print")
        mbrace == match_and_advance(c0, "LeftBrace")
    IN  IF mvar.ret THEN declaration_end(var_statement(mvar.c))
        ELSE IF mprint.ret THEN declaration_end(print_statement(mprint.c))
        ELSE IF mbrace.ret THEN begin_scope(mbrace.c)
        ELSE declaration_end(expression_statement(c0))

\* Compiler::block has no declaration left to parse
block_is_over(c0) == check(c0, "RightBrace") \/ check(c0, "Eof")

\* The end of Compiler::block, then of the statement and of the declaration
\* that called it.
block_end(c0) ==
    declaration_end(end_scope(consume(c0, "RightBrace", "expected '}' to end block")))

\* Compiler::end_compiler without its emit_return.
end_compiler_no_return(c0) == c0

\* Compiler::end_compiler
end_compiler(c0) == emit_return(c0)

----------------------------------------------------------------------------
(* vm.rs.  The record v holds the VmWithChunk, what it wrote to stdout and *)
(* stderr, and gc, the static ACTIVE_GC as the VM sees it.  An operation   *)
(* on the VM takes the chunk ch it runs.  The arm of an instruction        *)
(* returns [v, ret]: ret is None while the loop goes on and Some(r) when   *)
(* run returns r.                                                          *)

VmRunning(v) == v.status = "run"

VmPanic(v, message) ==
    IF VmRunning(v) THEN [v EXCEPT !.status = "panic", !.panic_msg = message] ELSE v

VmWithChunk_new(gc) ==
    [ip |-> 0, stack |-> <<>>, globals |-> [k \in {} |-> Nil], status |-> "run",
     panic_msg |-> "", stdout |-> <<>>, stderr |-> <<>>, gc |-> gc]

VmNone == VmWithChunk_new(None)

\* VmWithChunk::next_bytecode without `self.ip += 1`.
next_bytecode_in_place(v, ch) ==
    IF ~VmRunning(v) THEN [v |-> v, ret |-> None]
    ELSE [v |-> v, ret |-> get(ch, v.ip)]

\* VmWithChunk::next_bytecode, as [v, ret]
next_bytecode(v, ch) ==
    IF ~VmRunning(v) THEN [v |-> v, ret |-> None]
    ELSE [v |-> [v EXCEPT !.ip = @ + 1], ret |-> get(ch, v.ip)]

\* next_bytecode().expect(..): the operand byte, as [v, ret]
next_operand(v, ch, message) ==
    LET r == next_bytecode(v, ch) IN
    IF IsSome(r.ret) THEN [v |-> r.v, ret |-> Unwrap(r.ret)]
    ELSE [v |-> VmPanic(r.v, message), ret |-> 0]

\* VmWithChunk::push
push(v, value) ==
    IF ~VmRunning(v) THEN v ELSE [v EXCEPT !.stack = Append(@, value)]

\* VmWithChunk::pop, as [v, ret]
pop(v) ==
    IF ~VmRunning(v) THEN [v |-> v, ret |-> Nil]
    ELSE IF v.stack = <<>> THEN [v |-> VmPanic(v, "value stack is empty"), ret |-> Nil]
    ELSE [v |-> [v EXCEPT !.stack = Front(@)], ret |-> Last(v.stack)]

\* VmWithChunk::peek, as [v, ret]
peek(v, n) ==
    IF ~VmRunning(v) THEN [v |-> v, ret |-> Nil]
    ELSE IF n >= Len(v.stack) THEN [v |-> VmPanic(v, "ran off the stack"), ret |-> Nil]
    ELSE [v |-> v, ret |-> v.stack[Len(v.stack) - n]]

\* VmWithChunk::reset_stack
reset_stack(v) == [v EXCEPT !.stack = <<>>]

\* The offset whose line VmWithChunk::runtime_error reports
error_offset(v) == v.ip

\* VmWithChunk::runtime_error, as [v, ret]
\* VmWithChunk::runtime_error that reports and lets the run go on.
runtime_error_and_go_on(v, ch, message) ==
    IF ~VmRunning(v) THEN [v |-> v, ret |-> None]
    ELSE [v |-> reset_stack([v EXCEPT !.stderr =
                    Append(@, [message |-> message, line |-> 0])]),
          ret |-> None]

runtime_error(v, ch, message) ==
    LET line == line_number_for(ch, error_offset(v)) IN
    IF ~VmRunning(v) THEN [v |-> v, ret |-> None]
    ELSE IF ~IsSome(line)
    THEN [v |-> VmPanic(v, "line number"), ret |-> None]
    ELSE [v |-> reset_stack([v EXCEPT !.stderr =
                    Append(@, [message |-> message, line |-> Unwrap(line)])]),
          ret |-> Some("RuntimeError")]

\* VmWithChunk::next_string_constant, as [v, ret]
next_string_constant(v, ch) ==
    LET b == next_operand(v, ch, "there should be an operand")
        k == resolve_constant(ch, b.ret)
    IN  IF ~VmRunning(b.v) THEN [v |-> b.v, ret |-> <<>>]
        ELSE IF ~IsSome(k)
        THEN [v |-> VmPanic(b.v, "there should be a constant here"), ret |-> <<>>]
        ELSE IF ~IsSome(to_str(Unwrap(k)))
        THEN [v |-> VmPanic(b.v, "the name must be a string"), ret |-> <<>>]
        ELSE [v |-> b.v, ret |-> Unwrap(to_str(Unwrap(k)))]

\* impl From<String> for Value, through ActiveGC::store_string; as [v, ret]
Value_from_String(v, owned) ==
    IF ~VmRunning(v) THEN [v |-> v, ret |-> Nil]
    ELSE LET r == ActiveGC_store_string(v.gc, owned) IN
         IF r.panic # "" THEN [v |-> VmPanic(v, r.panic), ret |-> Nil]
         ELSE [v |-> [v EXCEPT !.gc = r.static], ret |-> LoxString(r.ret)]

Continue(v) == [v |-> v, ret |-> None]

\* HashMap::insert
map_insert(map, key, value) ==
    [k \in DOMAIN map \cup {key} |-> IF k = key THEN value ELSE map[k]]

\* HashMap::remove that leaves the entry in the map.
map_remove_nothing(map, key) == map

\* HashMap::remove
map_remove(map, key) == [k \in DOMAIN map \ {key} |-> map[k]]

Constant_arm(v, ch) ==
    LET b == next_operand(v, ch, "there should be an operand")
        k == resolve_constant(ch, b.ret)
    IN  IF ~IsSome(k)
        THEN Continue(VmPanic(b.v, "there should be a constant at this index"))
        ELSE Continue(push(b.v, Unwrap(k)))

Pop_arm(v, ch) == Continue(pop(v).v)

GetLocal_arm(v, ch) ==
    LET b == next_operand(v, ch, "operand")
        slot == b.ret
    IN  IF slot >= Len(b.v.stack) THEN Continue(VmPanic(b.v, "local variable"))
        ELSE Continue(push(b.v, b.v.stack[slot + 1]))

SetLocal_arm(v, ch) ==
    LET b == next_operand(v, ch, "operand")
        slot == b.ret
        p == pop(b.v)
    IN  IF ~VmRunning(p.v) THEN Continue(p.v)
        ELSE IF slot >= Len(p.v.stack)
        THEN Continue(VmPanic(p.v, "index out of bounds"))
        ELSE Continue([p.v EXCEPT !.stack[slot + 1] = p.ret])

GetGlobal_arm(v, ch) ==
    LET nm == next_string_constant(v, ch)
        name == nm.ret
    IN  IF ~VmRunning(nm.v) THEN Continue(nm.v)
        ELSE IF name \in DOMAIN nm.v.globals
        THEN Continue(push(nm.v, nm.v.globals[name]))
        ELSE runtime_error(nm.v, ch, <<"undefined global variable: ">> \o name)

DefineGlobal_arm(v, ch) ==
    LET nm == next_string_constant(v, ch)
        p == pop(nm.v)
    IN  IF ~VmRunning(p.v) THEN Continue(p.v)
        ELSE Continue([p.v EXCEPT !.globals = map_insert(@, nm.ret, p.ret)])

SetGlobal_arm(v, ch) ==
    LET nm == next_string_constant(v, ch)
        name == nm.ret
        p == peek(nm.v, 0)
        inserted == [p.v EXCEPT !.globals = map_insert(@, name, p.ret)]
    IN  IF ~VmRunning(p.v) THEN Continue(p.v)
        ELSE IF name \in DOMAIN p.v.globals THEN Continue(inserted)
        ELSE runtime_error([inserted EXCEPT !.globals = map_remove(@, name)], ch,
                           <<"Undefined variable: '">> \o name \o <<"'">>)

Equal_arm(v, ch) ==
    LET rhs == pop(v)
        lhs == pop(rhs.v)
    IN  Continue(push(lhs.v, Boolean(equal(lhs.ret, rhs.ret))))

\* The closures handed to binary_op
apply_op(op, a, b) ==
    CASE op = "Greater" -> Boolean(a > b)
      [] op = "Less" -> Boolean(a < b)
      [] op = "Subtract" -> Number(a - b)
      [] op = "Multiply" -> Number(a * b)
      [] op = "Divide" -> Number(a \div b)

\* VmWithChunk::binary_op that looks at the type of its right operand only.
binary_op_rhs_checked(v, ch, op) ==
    LET rhs == pop(v)
        lhs == pop(rhs.v)
    IN  IF ~VmRunning(lhs.v) THEN Continue(lhs.v)
        ELSE IF rhs.ret.tag = "Number"
        THEN Continue(push(lhs.v, apply_op(op, lhs.ret.n, rhs.ret.n)))
        ELSE runtime_error(lhs.v, ch, <<"Operands must be numbers">>)

\* VmWithChunk::binary_op
binary_op(v, ch, op) ==
    LET rhs == pop(v)
        lhs == pop(rhs.v)
    IN  IF ~VmRunning(lhs.v) THEN Continue(lhs.v)
        ELSE IF lhs.ret.tag = "Number" /\ rhs.ret.tag = "Number"
        THEN Continue(push(lhs.v, apply_op(op, lhs.ret.n, rhs.ret.n)))
        ELSE runtime_error(lhs.v, ch, <<"Operands must be numbers">>)

Add_arm(v, ch) ==
    LET rhs == pop(v)
        lhs == pop(rhs.v)
        str == Value_from_String(lhs.v, lhs.ret.s \o rhs.ret.s)
    IN  IF ~VmRunning(lhs.v) THEN Continue(lhs.v)
        ELSE IF lhs.ret.tag = "Number" /\ rhs.ret.tag = "Number"
        THEN Continue(push(lhs.v, Number(lhs.ret.n + rhs.ret.n)))
        ELSE IF lhs.ret.tag = "LoxString" /\ rhs.ret.tag = "LoxString"
        THEN Continue(push(str.v, str.ret))
        ELSE runtime_error(lhs.v, ch, <<"Can only add numbers or strings">>)

Not_arm(v, ch) ==
    LET p == pop(v) IN Continue(push(p.v, Boolean(is_falsy(p.ret))))

Negate_arm(v, ch) ==
    LET p == pop(v) IN
    IF ~VmRunning(p.v) THEN Continue(p.v)
    ELSE IF p.ret.tag = "Number" THEN Continue(push(p.v, Number(0 - p.ret.n)))
    ELSE runtime_error(p.v, ch, <<"Operand must be a number">>)

Print_arm(v, ch) ==
    LET p == pop(v) IN
    IF ~VmRunning(p.v) THEN Continue(p.v)
    ELSE Continue([p.v EXCEPT !.stdout = Append(@, display(p.ret))])

Return_arm(v, ch) == [v |-> v, ret |-> Some("Ok")]

\* The match on the opcode in VmWithChunk::run
dispatch(opcode, v, ch) ==
    CASE opcode = "Constant" -> Constant_arm(v, ch)
      [] opcode = "Nil" -> Continue(push(v, Nil))
      [] opcode = "True" -> Continue(push(v, Boolean(TRUE)))
      [] opcode = "False" -> Continue(push(v, Boolean(FALSE)))
      [] opcode = "Pop" -> Pop_arm(v, ch)
      [] opcode = "GetLocal" -> GetLocal_arm(v, ch)
      [] opcode = "SetLocal" -> SetLocal_arm(v, ch)
      [] opcode = "GetGlobal" -> GetGlobal_arm(v, ch)
      [] opcode = "DefineGlobal" -> DefineGlobal_arm(v, ch)
      [] opcode = "SetGlobal" -> SetGlobal_arm(v, ch)
      [] opcode = "Equal" -> Equal_arm(v, ch)
      [] opcode \in {"Greater", "Less", "Subtract", "Multiply", "Divide"} ->
            binary_op(v, ch, opcode)
      [] opcode = "Add" -> Add_arm(v, ch)
      [] opcode = "Not" -> Not_arm(v, ch)
      [] opcode = "Negate" -> Negate_arm(v, ch)
      [] opcode = "Print" -> Print_arm(v, ch)
      [] opcode = "Return" -> Return_arm(v, ch)

\* One pass of the loop of VmWithChunk::run, as [v, ret]
run_step(v, ch) ==
    LET f == next_bytecode(v, ch)
        opcode == as_opcode(Unwrap(f.ret))
    IN  IF ~IsSome(f.ret)
        THEN Continue(VmPanic(f.v, "I have an instruction pointer within range"))
        ELSE IF ~IsSome(opcode)
        THEN Continue(VmPanic(f.v, "fetched invalid opcode"))
        ELSE dispatch(Unwrap(opcode), f.v, ch)

----------------------------------------------------------------------------
(* The source texts explored: every text made of at most MaxFrags of the   *)
(* fragments below, one fragment to a line.                                *)

Lx(token, text) == [token |-> token, text |-> text]

LeftBrace == Lx("LeftBrace", <<"{">>)
RightBrace == Lx("RightBrace", <<"}">>)
Semicolon == Lx("Semicolon", <<";">>)
EqualSign == Lx("Equal", <<"=">>)
Var == Lx("Var", <<"v", "a", "r">>)
PrintKw == Lx("Print", <<"p", "r", "i", "n", "t">>)
IdB == Lx("Identifier", <<"b">>)
Num3 == Lx("Number", <<"3">>)
IdA == Lx("Identifier", <<"a">>)
Num1 == Lx("Number", <<"1">>)
Num2 == Lx("Number", <<"2">>)

Fragments ==
    << <<LeftBrace>>,                              \* {
       <<RightBrace>>,                             \* }
       <<Var, IdA, Semicolon>>,                    \* var a;
       <<IdA, EqualSign, Num2, Semicolon>>,        \* a = 2;
       <<Var, IdA, EqualSign, IdA, Semicolon>>,    \* var a = a;
       <<Var, Num1, Semicolon>>,                   \* var 1;
       <<Num1, Num1, Semicolon>>,                  \* 1 1;
       <<PrintKw, IdA, Semicolon>> >>              \* print a;

\* The text made of the fragments numbered picks[1], picks[2], ...
RECURSIVE TextOf(_)
TextOf(picks) ==
    IF picks = <<>> THEN <<>>
    ELSE Fragments[Head(picks)] \o <<NL>> \o TextOf(Tail(picks))

\* The text made of the lines frags[picks[1]], frags[picks[2]], ...
RECURSIVE LinesOf(_, _)
LinesOf(frags, picks) ==
    IF picks = <<>> THEN <<>>
    ELSE frags[Head(picks)] \o <<NL>> \o LinesOf(frags, Tail(picks))

\* The builds of the crate: with and without debug assertions.
Profiles == BOOLEAN

----------------------------------------------------------------------------
(* VM::interpret, step by step *)

CompilerNone == Compiler_new(<<>>, None, FALSE)

\* repl() has not been called.
ReplNone == [at |-> "none", stdin |-> <<>>, eof |-> FALSE, prompts |-> 0, debug_assertions |-> FALSE]

Init ==
    /\ ACTIVE_GC = None
    /\ handles = 0
    /\ gc_call = [op |-> "none", panic |-> "", str |-> <<>>, n |-> 0, ref |-> 0]
    /\ chunk = Chunk_default
    /\ chunk_ret = [op |-> "none", index |-> None, line |-> 0]
    /\ phase = "idle"
    /\ source = <<>>
    /\ c = CompilerNone
    /\ vm = VmNone
    /\ result = "none"
    /\ repl = ReplNone

\* interpret is called on a text made of the fragments: ActiveGC::install,
\* then compile as far as Parser::new and Compiler::new.
Interpret ==
    /\ phase = "idle"
    /\ \E n \in 0..MaxFrags, debug_assertions \in Profiles :
        \E picks \in [1..n -> 1..Len(Fragments)] :
            /\ source' = TextOf(picks)
            /\ ACTIVE_GC' = install(ACTIVE_GC)
            /\ c' = Compiler_new(TextOf(picks), install(ACTIVE_GC),
                                 debug_assertions)
    /\ handles' = handles + 1
    /\ phase' = "compiling"
    /\ result' = "none"
    /\ UNCHANGED <<repl, gc_call, chunk, chunk_ret, vm>>

\* Where the compiler is: in the loop of Compiler::compile when no block is
\* open, in the loop of the innermost Compiler::block otherwise.
InBlock == c.scope_depth > 0

\* One declaration, in the loop of compile or of block.
Declaration ==
    /\ phase = "compiling"
    /\ Running(c)
    /\ IF InBlock THEN ~block_is_over(c) ELSE ~check(c, "Eof")
    /\ c' = declaration(c)
    /\ ACTIVE_GC' = c'.gc
    /\ UNCHANGED <<repl, handles, gc_call, chunk, chunk_ret, phase, source, vm, result>>

\* The innermost block ends.
BlockEnd ==
    /\ phase = "compiling"
    /\ Running(c)
    /\ InBlock
    /\ block_is_over(c)
    /\ c' = block_end(c)
    /\ ACTIVE_GC' = c'.gc
    /\ UNCHANGED <<repl, handles, gc_call, chunk, chunk_ret, phase, source, vm, result>>

\* The loop of compile matches Eof; end_compiler.
EndCompiler ==
    /\ phase = "compiling"
    /\ Running(c)
    /\ ~InBlock
    /\ check(c, "Eof")
    /\ c' = end_compiler(match_and_advance(c, "Eof").c)
    /\ phase' = "compiled"
    /\ UNCHANGED <<repl, ACTIVE_GC, handles, gc_call, chunk, chunk_ret, source, vm, result>>

\* What Compiler::compile returns
compile_result(c0) == IF c0.had_error THEN "CompileError" ELSE "Ok"

\* compile returns; interpret returns its error, or builds the VM.
CompileReturn ==
    /\ phase = "compiled"
    /\ IF compile_result(c) = "Ok"
       THEN /\ chunk' = c.compiling_chunk
            /\ vm' = VmWithChunk_new(ACTIVE_GC)
            /\ phase' = "running"
            /\ result' = result
       ELSE /\ chunk' = chunk
            /\ vm' = vm
            /\ phase' = "returned"
            /\ result' = compile_result(c)
    /\ c' = CompilerNone
    /\ UNCHANGED <<repl, ACTIVE_GC, handles, gc_call, chunk_ret, source>>

\* One instruction of the loop of run.
Run ==
    /\ phase = "running"
    /\ VmRunning(vm)
    /\ LET r == run_step(vm, chunk) IN
        /\ vm' = r.v
        /\ ACTIVE_GC' = r.v.gc
        /\ IF IsSome(r.ret)
           THEN phase' = "returned" /\ result' = Unwrap(r.ret)
           ELSE phase' = phase /\ result' = result
    /\ UNCHANGED <<repl, handles, gc_call, chunk, chunk_ret, source, c>>

\* interpret returns: its locals vm, chunk and active_gc are dropped.
InterpretReturn ==
    /\ phase = "returned"
    /\ ACTIVE_GC' = ActiveGC_drop(ACTIVE_GC).static
    /\ handles' = handles - 1
    /\ vm' = VmNone
    /\ chunk' = Chunk_default
    /\ source' = <<>>
    /\ phase' = IF ActiveGC_drop(ACTIVE_GC).panic = "" THEN "idle" ELSE "panic"
    /\ UNCHANGED <<repl, gc_call, chunk_ret, c, result>>

Next ==
    \/ Interpret
    \/ Declaration
    \/ BlockEnd
    \/ EndCompiler
    \/ CompileReturn
    \/ Run
    \/ InterpretReturn

Spec == Init /\ [][Next]_vars

----------------------------------------------------------------------------
(* VM::interpret on long programs: the same statement many times over *)

\* `unit` written n times.
RepeatText(unit, n) ==
    [i \in 1..(n * Len(unit)) |-> unit[((i - 1) % Len(unit)) + 1]]

\* n statements `1;`, one to a line: n constants.
ConstantsProgram(n) == RepeatText(<<Num1, Semicolon, NL>>, n)

\* n nested blocks that each declare a local: `{ var a;` n times, then
\* `}` n times.
LocalsProgram(n) ==
    RepeatText(<<LeftBrace, Var, IdA, Semicolon, NL>>, n)
        \o RepeatText(<<RightBrace, NL>>, n)

\* Statement number i of a program of global statements: `var a;` first,
\* `a = 1;` second, then `var a;` and `print a;` in turn, each with the
\* line breaks that make it five lexemes long.
GlobalStatement(i) ==
    IF i = 2 THEN <<IdA, EqualSign, Num1, Semicolon, NL>>
    ELSE IF i % 2 = 1 THEN <<Var, IdA, Semicolon, NL, NL>>
    ELSE <<PrintKw, IdA, Semicolon, NL, NL>>

\* Statements on the global a that need n constants between them: the
\* assignment needs two, every other statement one.
GlobalsProgram(n) ==
    IF n < 3 THEN <<>>
    ELSE [j \in 1..(5 * (n - 1)) |-> GlobalStatement(((j - 1) \div 5) + 1)[((j - 1) % 5) + 1]]

\* The lengths explored: the longest and the two below it.
RepeatCounts == {n \in 0..MaxRepeat : n + 2 >= MaxRepeat}

\* interpret is called on a long program.
InterpretLong ==
    /\ phase = "idle"
    /\ \E n \in RepeatCounts, debug_assertions \in Profiles :
        \E text \in {ConstantsProgram(n), LocalsProgram(n), GlobalsProgram(n)} :
            /\ source' = text
            /\ ACTIVE_GC' = install(ACTIVE_GC)
            /\ c' = Compiler_new(text, install(ACTIVE_GC), debug_assertions)
    /\ handles' = handles + 1
    /\ phase' = "compiling"
    /\ result' = "none"
    /\ UNCHANGED <<repl, gc_call, chunk, chunk_ret, vm>>

NextLong ==
    \/ InterpretLong
    \/ Declaration
    \/ BlockEnd
    \/ EndCompiler
    \/ CompileReturn
    \/ Run
    \/ InterpretReturn

SpecLong == Init /\ [][NextLong]_vars

\* The loop of VmWithChunk::run is plain sequential code: once entered it
\* takes its next pass.
SpecLongRun == SpecLong /\ WF_vars(Run)

----------------------------------------------------------------------------
(* VM::interpret on programs of nested blocks that declare and print *)

ScopeFragments ==
    << <<LeftBrace, Var, IdA, EqualSign, Num1, Semicolon>>,   \* { var a = 1;
       <<LeftBrace, Var, IdA, EqualSign, Num2, Semicolon>>,   \* { var a = 2;
       <<Var, IdB, EqualSign, Num3, Semicolon>>,              \* var b = 3;
       <<PrintKw, IdA, Semicolon>>,                           \* print a;
       <<RightBrace>> >>                                      \* }

\* interpret is called on a text made of the scope fragments.  These programs
\* hold at most MaxScopeFrags locals, far from the U8_COUNT locals where the
\* builds differ (mark_initialized), so the default (debug) build is followed.
InterpretScopes ==
    /\ phase = "idle"
    /\ \E n \in 0..MaxScopeFrags, debug_assertions \in {TRUE} :
        \E picks \in [1..n -> 1..Len(ScopeFragments)] :
            /\ source' = LinesOf(ScopeFragments, picks)
            /\ ACTIVE_GC' = install(ACTIVE_GC)
            /\ c' = Compiler_new(LinesOf(ScopeFragments, picks),
                                 install(ACTIVE_GC), debug_assertions)
    /\ handles' = handles + 1
    /\ phase' = "compiling"
    /\ result' = "none"
    /\ UNCHANGED <<repl, gc_call, chunk, chunk_ret, vm>>

NextScopes ==
    \/ InterpretScopes
    \/ Declaration
    \/ BlockEnd
    \/ EndCompiler
    \/ CompileReturn
    \/ Run
    \/ InterpretReturn

SpecScopes == Init /\ [][NextScopes]_vars

----------------------------------------------------------------------------
(* VM::interpret on programs of one statement *)

NumLit(n) == Lx("Number", NatToText(n))
Plus == Lx("Plus", <<"+">>)
Minus == Lx("Minus", <<"-">>)
Bang == Lx("Bang", <<"!">>)
Slash == Lx("Slash", <<"/">>)
LeftParen == Lx("LeftParen", <<"(">>)
RightParen == Lx("RightParen", <<")">>)
IdC == Lx("Identifier", <<"c">>)
NilKw == Lx("Nil", <<"n", "i", "l">>)

\* The binary operators but `/`, and the unary ones
IntOps ==
    {Plus, Minus, Lx("Star", <<"*">>),
     Lx("EqualEqual", <<"=", "=">>), Lx("BangEqual", <<"!", "=">>),
     Lx("Less", <<"<">>), Lx("LessEqual", <<"<", "=">>),
     Lx("Greater", <<">">>), Lx("GreaterEqual", <<">", "=">>)}
UnaryOps == {Minus, Bang}

\* The integer literals 1 .. MaxNum, and a literal of every type with the
\* name of a global that is never defined
IntOperands == {NumLit(n) : n \in 1..MaxNum}
Literals ==
    IntOperands \cup
    {NilKw, Lx("True", <<"t", "r", "u", "e">>),
     Lx("False", <<"f", "a", "l", "s", "e">>),
     Lx("StrLiteral", <<"\"", "a", "\"">>), Lx("StrLiteral", <<"\"", "b", "\"">>),
     IdA}

\* Expressions over integer literals: two binary operators with and without
\* parentheses, a unary operator on either side of a binary one, two unary
\* operators.  None negates a zero, so that f64 arithmetic on them is integer
\* arithmetic.
IntExpressions ==
    {<<x, o1, y, o2, z>> : x \in IntOperands, o1 \in IntOps,
                           y \in IntOperands, o2 \in IntOps, z \in IntOperands}
    \cup
    {<<LeftParen, x, o1, y, RightParen, o2, z>> :
        x \in IntOperands, o1 \in IntOps,
        y \in IntOperands, o2 \in IntOps, z \in IntOperands}
    \cup
    {<<x, o1, LeftParen, y, o2, z, RightParen>> :
        x \in IntOperands, o1 \in IntOps,
        y \in IntOperands, o2 \in IntOps, z \in IntOperands}
    \cup
    {<<u, x, o1, y>> : u \in UnaryOps, x \in IntOperands,
                       o1 \in IntOps, y \in IntOperands}
    \cup
    {<<x, o1, u, y>> : u \in UnaryOps, x \in IntOperands,
                       o1 \in IntOps, y \in IntOperands}
    \cup
    {<<u, v, x>> : u \in UnaryOps, v \in UnaryOps, x \in IntOperands}

\* A division of two number literals whose quotient is no whole number
Fractional(x, o, y) ==
    /\ o = Slash
    /\ x.token = "Number"
    /\ y.token = "Number"
    /\ parse_f64(x.text) % parse_f64(y.text) # 0

\* One operator applied to literals of every type (no fractional quotient)
TypedExpressions ==
    {e \in {<<x, o, y>> : x \in Literals, o \in IntOps \cup {Slash}, y \in Literals} :
        ~Fractional(e[1], e[2], e[3])}
    \cup
    {<<u, x>> : u \in UnaryOps, x \in Literals}
    \cup
    {<<x>> : x \in Literals}

\* Statements with an `=`
AssignmentStatements ==
    {<<IdA, Plus, IdB, EqualSign, IdC, Semicolon>>,      \* a + b = c;
     <<Minus, IdA, EqualSign, IdC, Semicolon>>,           \* -a = c;
     <<Num1, EqualSign, Num2, Semicolon>>,                \* 1 = 2;
     <<IdA, EqualSign, Num1, Semicolon>>,                 \* a = 1;
     <<IdA, NL, EqualSign, Num1, NL, Semicolon>>}         \* the same on 3 lines

\* The one-statement programs: print statements and expression statements,
\* with the `;` on the line of the expression or on the next line
Statements ==
    {<<PrintKw>> \o e \o <<Semicolon>> : e \in IntExpressions \cup TypedExpressions}
    \cup {<<PrintKw>> \o e \o <<NL, Semicolon>> : e \in TypedExpressions}
    \cup {e \o <<NL, Semicolon>> : e \in TypedExpressions}
    \cup AssignmentStatements

\* interpret is called on a program of one statement.
InterpretStmt ==
    /\ phase = "idle"
    /\ \E debug_assertions \in Profiles :
        \E text \in Statements :
            /\ source' = text
            /\ ACTIVE_GC' = install(ACTIVE_GC)
            /\ c' = Compiler_new(text, install(ACTIVE_GC), debug_assertions)
    /\ handles' = handles + 1
    /\ phase' = "compiling"
    /\ result' = "none"
    /\ UNCHANGED <<repl, gc_call, chunk, chunk_ret, vm>>

NextStmt ==
    \/ InterpretStmt
    \/ Declaration
    \/ EndCompiler
    \/ CompileReturn
    \/ Run
    \/ InterpretReturn

SpecStmt == Init /\ [][NextStmt]_vars

----------------------------------------------------------------------------
(* The read-execute-print loop (main.rs) *)

\* What may wait on the standard input: lines of Lox, each with its line
\* break, and bytes that are not UTF-8, which read_line refuses.
ReplLines ==
    {<<Var, IdA, Semicolon, NL>>, <<PrintKw, Num1, Semicolon, NL>>,
     <<PrintKw, IdA, Semicolon, NL>>, <<NL>>}

ReplInputs ==
    {[utf8 |-> TRUE, text |-> l] : l \in ReplLines}
        \cup {[utf8 |-> FALSE, text |-> <<>>]}

\* Stdin::read_line(&mut line) on a cleared line: the next line with its
\* line break, Ok(0) and nothing appended at the end of the input, Err when
\* the bytes are not UTF-8.
read_line(stdin) ==
    IF stdin = <<>>
    THEN [ret |-> "Ok", n |-> 0, line |-> <<>>, stdin |-> stdin]
    ELSE IF Head(stdin).utf8
         THEN [ret |-> "Ok", n |-> Len(Head(stdin).text), line |-> Head(stdin).text,
               stdin |-> Tail(stdin)]
         ELSE [ret |-> "Err", n |-> 0, line |-> <<>>, stdin |-> Tail(stdin)]

\* main calls repl() with some lines waiting on the standard input.
ReplStart ==
    /\ repl.at = "none"
    /\ phase = "idle"
    /\ \E n \in 0..MaxLines, debug_assertions \in Profiles :
        \E lines \in [1..n -> ReplInputs] :
            repl' = [at |-> "loop", stdin |-> lines, eof |-> FALSE, prompts |-> 0,
                     debug_assertions |-> debug_assertions]
    /\ UNCHANGED <<ACTIVE_GC, handles, gc_call, chunk, chunk_ret, phase, source, c,
                   vm, result>>

\* One turn of the loop, read_line gives Ok(_): the prompt is written and
\* vm.interpret(&line) is called.
ReplReadLine ==
    /\ repl.at = "loop"
    /\ phase = "idle"
    /\ repl.prompts < MaxPrompts
    /\ read_line(repl.stdin).ret = "Ok"
    /\ repl' = [repl EXCEPT !.at = "interpreting",
                            !.stdin = read_line(repl.stdin).stdin,
                            !.eof = (read_line(repl.stdin).n = 0),
                            !.prompts = @ + 1]
    /\ source' = read_line(repl.stdin).line
    /\ ACTIVE_GC' = install(ACTIVE_GC)
    /\ c' = Compiler_new(read_line(repl.stdin).line, install(ACTIVE_GC),
                         repl.debug_assertions)
    /\ handles' = handles + 1
    /\ phase' = "compiling"
    /\ result' = "none"
    /\ UNCHANGED <<gc_call, chunk, chunk_ret, vm>>

\* One turn of the loop, read_line gives Err(_): the prompt is written, then
\* a line break, and the loop is left; repl returns Ok(()).
ReplReadError ==
    /\ repl.at = "loop"
    /\ phase = "idle"
    /\ repl.prompts < MaxPrompts
    /\ read_line(repl.stdin).ret = "Err"
    /\ repl' = [repl EXCEPT !.at = "returned",
                            !.stdin = read_line(repl.stdin).stdin,
                            !.prompts = @ + 1]
    /\ result' = "Ok"
    /\ UNCHANGED <<ACTIVE_GC, handles, gc_call, chunk, chunk_ret, phase, source, c,
                   vm>>

\* The `?` after vm.interpret(&line): an error is what repl returns, Ok goes
\* round the loop.
ReplInterpreted ==
    /\ repl.at = "interpreting"
    /\ phase = "idle"
    /\ repl' = [repl EXCEPT !.at = IF result = "Ok" THEN "loop" ELSE "returned"]
    /\ UNCHANGED <<ACTIVE_GC, handles, gc_call, chunk, chunk_ret, phase, source, c,
                   vm, result>>

NextRepl ==
    \/ ReplStart
    \/ ReplReadLine
    \/ ReplReadError
    \/ ReplInterpreted
    \/ Declaration
    \/ EndCompiler
    \/ CompileReturn
    \/ Run
    \/ InterpretReturn

SpecRepl == Init /\ [][NextRepl]_vars

----------------------------------------------------------------------------
(* The interner's interface (gc.rs), called directly as its tests do *)

\* The strings the callers store: that of test_gc, the empty string and two
\* one-letter ones.
Strings == {<<"h", "e", "l", "l", "o">>, <<>>, <<"a">>, <<"b">>}

NoCall == [op |-> "none", panic |-> "", str |-> <<>>, n |-> 0, ref |-> 0]

\* let handle = ActiveGC::install();
Install ==
    /\ handles < MaxHandles
    /\ ACTIVE_GC' = install(ACTIVE_GC)
    /\ handles' = handles + 1
    /\ gc_call' = [NoCall EXCEPT !.op = "install"]
    /\ UNCHANGED <<repl, chunk, chunk_ret, phase, source, c, vm, result>>

\* A handle goes out of scope.
Drop ==
    /\ handles > 0
    /\ ACTIVE_GC' = ActiveGC_drop(ACTIVE_GC).static
    /\ handles' = handles - 1
    /\ gc_call' = [NoCall EXCEPT !.op = "drop",
                                 !.panic = ActiveGC_drop(ACTIVE_GC).panic]
    /\ UNCHANGED <<repl, chunk, chunk_ret, phase, source, c, vm, result>>

\* ActiveGC::store_string(s)
StoreString ==
    /\ \E s \in Strings :
        LET r == ActiveGC_store_string(ACTIVE_GC, s) IN
        /\ ACTIVE_GC' = r.static
        /\ gc_call' = [NoCall EXCEPT !.op = "store_string", !.panic = r.panic,
                                     !.str = r.ret, !.ref = r.ref]
    /\ UNCHANGED <<repl, handles, chunk, chunk_ret, phase, source, c, vm, result>>

\* ActiveGC::n_strings()
NStrings ==
    /\ LET r == ActiveGC_n_strings(ACTIVE_GC) IN
        gc_call' = [NoCall EXCEPT !.op = "n_strings", !.panic = r.panic,
                                  !.n = r.ret]
    /\ UNCHANGED <<repl, ACTIVE_GC, handles, chunk, chunk_ret, phase, source, c, vm,
                   result>>

NextGC ==
    \/ Install
    \/ Drop
    \/ StoreString
    \/ NStrings

SpecGC == Init /\ [][NextGC]_vars

----------------------------------------------------------------------------
(* The chunk's interface (chunk.rs), called directly *)

\* The opcodes, lines and operands the callers write.
WrittenOpCodes == {"Constant", "Return"}
WrittenLines == {1, 2}
WrittenOperands == {0, U8_MAX}

NoRet == [op |-> "none", index |-> None, line |-> 0]

\* chunk.add_constant(value); the value added is the number of the call.
AddConstant ==
    /\ Len(chunk.constants) < MaxAdds
    /\ LET r == add_constant(chunk, Number(Len(chunk.constants))) IN
        /\ chunk' = r.chunk
        /\ chunk_ret' = [NoRet EXCEPT !.op = "add_constant", !.index = r.ret]
    /\ UNCHANGED <<repl, ACTIVE_GC, handles, gc_call, phase, source, c, vm, result>>

\* chunk.write_opcode(opcode, line), which returns a WrittenOpcode
WriteOpcode ==
    /\ Len(chunk.code) < MaxCode
    /\ \E opcode \in WrittenOpCodes, line \in WrittenLines :
        /\ chunk' = write_opcode(chunk, opcode, line)
        /\ chunk_ret' = [NoRet EXCEPT !.op = "write_opcode", !.line = line]
    /\ UNCHANGED <<repl, ACTIVE_GC, handles, gc_call, phase, source, c, vm, result>>

\* written_opcode.with_operand(index), which consumes the WrittenOpcode
WithOperand ==
    /\ chunk_ret.op = "write_opcode"
    /\ Len(chunk.code) < MaxCode
    /\ \E index \in WrittenOperands :
        chunk' = with_operand(chunk, chunk_ret.line, index)
    /\ chunk_ret' = [NoRet EXCEPT !.op = "with_operand"]
    /\ UNCHANGED <<repl, ACTIVE_GC, handles, gc_call, phase, source, c, vm, result>>

NextChunk ==
    \/ AddConstant
    \/ WriteOpcode
    \/ WithOperand

SpecChunk == Init /\ [][NextChunk]_vars

----------------------------------------------------------------------------
(* Properties *)

\* The VM is about to execute `opcode`.
AtOpcode(opcode) ==
    /\ phase = "running"
    /\ VmRunning(vm)
    /\ IsSome(get(chunk, vm.ip))
    /\ as_opcode(Unwrap(get(chunk, vm.ip))) = Some(opcode)

\* The operand of the instruction the VM is about to execute.
OperandAtIp == Unwrap(get(chunk, vm.ip + 1))

\* C1: executing SetLocal with operand slot stores the value on top of the
\* stack into stack[slot] and does not pop it: the stack is as deep after
\* the instruction as before, and the assigned value is still on top.
C1_SetLocalKeepsTop ==
    [][(Run /\ AtOpcode("SetLocal")) =>
          /\ VmRunning(vm')
          /\ Len(vm'.stack) = Len(vm.stack)
          /\ Last(vm'.stack) = Last(vm.stack)
          /\ vm'.stack[OperandAtIp + 1] = Last(vm.stack)]_vars

\* C2: a program that compiled and raised no runtime error runs to its
\* Return, and the value stack is empty when Return is executed.
C2_StackEmptyAtReturn ==
    vm # VmNone =>
        /\ VmRunning(vm)
        /\ AtOpcode("Return") => vm.stack = <<>>

\* C3: synchronize terminates, so compile terminates on every text: the
\* compiler is never left in a loop of synchronize that cannot exit.
C3_SynchronizeTerminates == c.status # "hang"

\* C4: compile ends by returning Ok or Err(CompileError); a syntax error
\* never makes the compiler panic.
C4_CompileNeverPanics == c.status # "panic"

\* The message of resolve_local for the variable a.
OwnInitializerMessage ==
    <<"Cannot use '">> \o IdA.text \o <<"' in its own initializer">>

\* How many times the compiler has reported OwnInitializerMessage.
OwnInitializerReports(c0) ==
    Cardinality({i \in 1..Len(c0.stderr) :
                    c0.stderr[i].message = OwnInitializerMessage})

\* The declaration the compiler is about to compile is `var a = a;`.
SelfInitializerNext(c0) ==
    /\ c0.current.token = Var.token
    /\ Len(c0.scanner.source) >= 4
    /\ SubSeq(c0.scanner.source, 1, 4) = <<IdA, EqualSign, IdA, Semicolon>>

\* A local `a` is already declared in the innermost scope.
DeclaredInScope(c0) ==
    \E i \in 1..Len(c0.locals) :
        /\ c0.locals[i].name.text = IdA.text
        /\ ~in_outer_scope(c0.locals[i], c0.scope_depth)

\* The programs that are the one declaration `var a = a;`, at top level and
\* in a block.
SelfInitializerPrograms == {TextOf(<<5>>), TextOf(<<1, 5, 2>>)}

C6_CompileResult ==
    /\ [](phase = "compiled" =>
            /\ c.had_error <=> c.stderr # <<>>
            /\ c.compiling_chunk.code # <<>>
            /\ Last(c.compiling_chunk.code) = as_u8("Return"))
    /\ [][CompileReturn =>
            IF c.had_error
            THEN /\ phase' = "returned"
                 /\ result' = "CompileError"
                 /\ vm' = VmNone
                 /\ chunk' = Chunk_default
            ELSE /\ phase' = "running"
                 /\ result' = "none"
                 /\ chunk' = c.compiling_chunk
                 /\ vm' # VmNone]_vars

\* C6, its case: compile is about to return with an error reported.
C6_Witness ==
    /\ phase = "compiled"
    /\ c.had_error
    /\ Len(c.compiling_chunk.code) > 1

\* C7: installing while an interner is active panics at the install call:
\* the active interner is not replaced and no second handle is live.
C7_NestedInstallRejected ==
    [][(Install /\ IsSome(ACTIVE_GC)) =>
          /\ gc_call'.panic # ""
          /\ ACTIVE_GC' = ACTIVE_GC
          /\ handles' = handles]_vars

\* C8: interpret installs a fresh, empty interner before compiling, the
\* interner stays active, with one handle, while interpret compiles and
\* runs, and interpret tears it down when it returns, whatever it returns:
\* between two calls no interner is active and no handle is live.
C8_InternerLifecycle ==
    /\ [](IF phase = "idle"
          THEN ACTIVE_GC = None /\ handles = 0
          ELSE IsSome(ACTIVE_GC) /\ handles = 1)
    /\ [][(phase = "idle" /\ phase' # "idle") =>
            (phase' = "compiling" /\ ACTIVE_GC' = Some(GC_default))]_vars
    /\ [][InterpretReturn =>
            (phase' = "idle" /\ result' \in {"Ok", "CompileError", "RuntimeError"})]_vars

\* C8, its case: interpret has returned a RuntimeError and is torn down.
C8_Witness ==
    /\ phase = "idle"
    /\ result = "RuntimeError"
    /\ ACTIVE_GC = None

\* C9: store_string and n_strings called when no interner is active panic
\* with "Tried to get active GC" and install nothing; and no interner is
\* active once the last handle is released.
C9_NoInternerPanics ==
    /\ [][((StoreString \/ NStrings) /\ ACTIVE_GC = None) =>
            /\ gc_call'.panic = TriedToGet
            /\ ACTIVE_GC' = None]_vars
    /\ [][Drop => ACTIVE_GC' = None]_vars
    /\ [](handles = 0 => ACTIVE_GC = None)

\* C9, its case: store_string has panicked for want of an interner.
C9_Witness ==
    /\ gc_call.op = "store_string"
    /\ gc_call.panic = TriedToGet
    /\ handles = 0

\* C10: after any sequence of add_constant calls the constant pool holds at
\* most 256 entries.
C10_PoolAtMost256 == Len(chunk.constants) <= U8_COUNT

\* The message of make_constant.
TooManyConstants == <<"Too many constants in one chunk">>

\* C11: the n-th constant added to a chunk gets index n - 1 for n <= 256;
\* a statement that needs a 257th constant reports "Too many constants",
\* and compile fails for that reason when the program has more than 256
\* constants and not when it has exactly 256.
C11_ConstantIndices ==
    /\ [][(Declaration /\ c.current.token = Num1.token) =>
            LET before == c.compiling_chunk
                after == c'.compiling_chunk
                n == Len(before.constants)
            IN  IF n < U8_COUNT
                THEN /\ after.constants = Append(before.constants, Number(1))
                     /\ after.code = before.code \o
                           <<as_u8("Constant"), n, as_u8("Pop")>>
                     /\ c'.stderr = c.stderr
                ELSE /\ c'.had_error
                     /\ c'.stderr # <<>>
                     /\ Last(c'.stderr).message = TooManyConstants]_vars
    /\ [](phase = "compiled" /\ c.compiling_chunk.constants # <<>> =>
            (c.had_error <=> Len(c.compiling_chunk.constants) > U8_COUNT))

\* C11, its case: compile is about to return for a program of 257 constants.
C11_Witness ==
    /\ phase = "compiled"
    /\ source = ConstantsProgram(U8_COUNT + 1)
    /\ c.had_error

\* C12: with 256 locals live, declaring one more is a compile error that
\* compile returns as a value, the compiler does not abort; and the list of
\* locals never holds more than 256 entries.
C12_TooManyLocalsIsAnError ==
    /\ [](Len(c.locals) <= U8_COUNT)
    /\ [][(Declaration /\ c.current.token = Var.token
                       /\ Len(c.locals) = U8_COUNT) =>
            (Running(c') /\ c'.had_error)]_vars

\* The message of declare_variable for the variable a.
AlreadyDeclaredMessage ==
    <<"Already a variable called '">> \o IdA.text \o <<"' in this scope">>

\* The declaration the compiler is about to compile is `var a;`.
PlainDeclarationNext(c0) ==
    /\ c0.current.token = Var.token
    /\ Len(c0.scanner.source) >= 2
    /\ SubSeq(c0.scanner.source, 1, 2) = <<IdA, Semicolon>>

\* A local `a` was declared in the block the compiler is in.
LocalOfThisBlock(c0) ==
    \E i \in 1..Len(c0.locals) :
        /\ c0.locals[i].name.text = IdA.text
        /\ c0.locals[i].depth = Some(c0.scope_depth)

\* C13: declaring a local whose name is that of a local of the same block
\* is a compile error; declaring the name again in a nested block, or at
\* top level where variables are globals, is accepted.
C13_Redeclaration ==
    /\ [][(Declaration /\ PlainDeclarationNext(c)) =>
            IF InBlock /\ LocalOfThisBlock(c)
            THEN /\ c'.had_error
                 /\ Len(c'.stderr) = Len(c.stderr) + 1
                 /\ Last(c'.stderr).message = AlreadyDeclaredMessage
            ELSE /\ c'.stderr = c.stderr
                 /\ c'.had_error = c.had_error
                 /\ Len(c'.locals) = Len(c.locals) + (IF InBlock THEN 1 ELSE 0)]_vars
    /\ [][(CompileReturn /\ \E i \in 1..Len(c.stderr) :
                                c.stderr[i].message = AlreadyDeclaredMessage) =>
            (phase' = "returned" /\ result' = "CompileError")]_vars

\* C13, its case: `{ var a; var a; }` was refused for the redeclaration.
C13_Witness ==
    /\ source = TextOf(<<1, 3, 3, 2>>)
    /\ phase = "compiled"
    /\ Len(c.stderr) = 1
    /\ c.stderr[1].message = AlreadyDeclaredMessage


\* The program { var a = 1; { var a = 2; print a; } print a; }
ShadowingProgram == LinesOf(ScopeFragments, <<1, 2, 4, 5, 4, 5>>)

\* The live locals called `a`, by their place in the locals list.
LiveLocalsNamedA(c0) == {i \in 1..Len(c0.locals) : c0.locals[i].name.text = IdA.text}

\* The slot of the most recently declared of them.
NewestLocalNamedA(c0) ==
    (CHOOSE i \in LiveLocalsNamedA(c0) : \A j \in LiveLocalsNamedA(c0) : j <= i) - 1

\* C14: `print a;` reads the slot of the most recently declared live local
\* called a, and the global a only when no live local is called a; the end of
\* a block removes exactly the locals the block declared, so that an outer
\* local of the same name is seen again; the program
\* { var a = 1; { var a = 2; print a; } print a; } prints 2 then 1.
C14_NameResolution ==
    /\ [][(Declaration /\ c.current.token = PrintKw.token /\ ~c.had_error) =>
            /\ ~c'.had_error
            /\ Len(c'.compiling_chunk.code) = Len(c.compiling_chunk.code) + 3
            /\ SubSeq(c'.compiling_chunk.code,
                      Len(c.compiling_chunk.code) + 1,
                      Len(c.compiling_chunk.code) + 3)
                 = IF LiveLocalsNamedA(c) # {}
                   THEN <<as_u8("GetLocal"), NewestLocalNamedA(c), as_u8("Print")>>
                   ELSE <<as_u8("GetGlobal"),
                          Len(c'.compiling_chunk.constants) - 1,
                          as_u8("Print")>>
            /\ (LiveLocalsNamedA(c) = {} =>
                    Last(c'.compiling_chunk.constants) = LoxString(IdA.text))]_vars
    /\ [][(BlockEnd /\ ~c.had_error) =>
            c'.locals = SelectSeq(c.locals,
                                  LAMBDA l : Unwrap(l.depth) < c.scope_depth)]_vars
    /\ [](phase = "returned" /\ source = ShadowingProgram =>
            /\ result = "Ok"
            /\ vm.stdout = <<Num2.text, Num1.text>>)

\* The shadowing program has run to its end and printed twice.
C14_Witness ==
    /\ phase = "returned"
    /\ source = ShadowingProgram
    /\ Len(vm.stdout) = 2


InvalidAssignmentTarget == <<"invalid assignment target">>

\* a + b = c;  -a = c;  1 = 2;
InvalidAssignments ==
    {<<IdA, Plus, IdB, EqualSign, IdC, Semicolon>>,
     <<Minus, IdA, EqualSign, IdC, Semicolon>>,
     <<Num1, EqualSign, Num2, Semicolon>>}

\* C15: a statement whose `=` follows an expression that is no variable
\* parsed at assignment precedence is reported as "invalid assignment
\* target": the compiler is in error, having written that message.
C15_InvalidAssignmentTarget ==
    [][(Declaration /\ source \in InvalidAssignments) =>
        /\ c'.had_error
        /\ \E i \in 1..Len(c'.stderr) :
              c'.stderr[i].message = InvalidAssignmentTarget]_vars

\* The name that the operand of the instruction about to be executed denotes.
GlobalNameAtIp == Unwrap(resolve_constant(chunk, OperandAtIp)).s

\* C16: GetGlobal or SetGlobal on a name that is not in the globals table
\* ends the run with RuntimeError and leaves the table as it was.
C16_UnboundGlobal ==
    [][(/\ Run
        /\ AtOpcode("GetGlobal") \/ AtOpcode("SetGlobal")
        /\ GlobalNameAtIp \notin DOMAIN vm.globals) =>
          /\ phase' = "returned"
          /\ result' = "RuntimeError"
          /\ vm'.globals = vm.globals]_vars

\* `a = 2;` has been run with no global a: SetGlobal raised.
C16_Witness ==
    /\ phase = "returned"
    /\ source = TextOf(<<4>>)
    /\ result = "RuntimeError"
    /\ Len(vm.stderr) = 1

\* C17: the first runtime error ends the run: the step that reports it
\* clears the stack and makes interpret return RuntimeError without printing;
\* a run reports at most one error, and once interpret has its result the VM
\* executes nothing more: it is only dropped.
C17_FirstRuntimeErrorEndsRun ==
    /\ [][(Run /\ Len(vm'.stderr) > Len(vm.stderr)) =>
            /\ vm.stderr = <<>>
            /\ Len(vm'.stderr) = 1
            /\ vm'.stack = <<>>
            /\ vm'.stdout = vm.stdout
            /\ vm'.globals = vm.globals
            /\ phase' = "returned"
            /\ result' = "RuntimeError"]_vars
    /\ [][(phase = "returned" /\ result = "RuntimeError") =>
            /\ vm' = VmNone
            /\ phase' \in {"idle", "panic"}]_vars

\* print 1 + nil; has raised with the 1 and the nil on the stack.
C17_Witness ==
    /\ phase = "returned"
    /\ source = <<PrintKw, Num1, Plus, NilKw, Semicolon>>
    /\ result = "RuntimeError"
    /\ vm.stack = <<>>
    /\ vm.stdout = <<>>

\* C18: the line reported with a runtime error is the line recorded for the
\* instruction being executed (the one whose opcode was just read), and that
\* line is defined.
C18_ErrorLineOfFailingInstruction ==
    [][(Run /\ Len(vm'.stderr) > Len(vm.stderr)) =>
          /\ IsSome(line_number_for(chunk, vm.ip))
          /\ Last(vm'.stderr).line = Unwrap(line_number_for(chunk, vm.ip))]_vars

\* The operands of the binary instruction about to be executed, and the
\* stack below them.
Lhs == vm.stack[Len(vm.stack) - 1]
Rhs == vm.stack[Len(vm.stack)]
BelowOperands == SubSeq(vm.stack, 1, Len(vm.stack) - 2)

\* The step raises a runtime error.
Raises == phase' = "returned" /\ result' = "RuntimeError" /\ Len(vm'.stderr) = 1

\* The step raises nothing and leaves `value` in place of the operands.
Yields(below, value) ==
    /\ phase' = "running"
    /\ VmRunning(vm')
    /\ vm'.stderr = <<>>
    /\ vm'.stack = Append(below, value)

BothNumbers == Lhs.tag = "Number" /\ Rhs.tag = "Number"
BothStrings == Lhs.tag = "LoxString" /\ Rhs.tag = "LoxString"

\* C19: Subtract, Multiply, Divide, Greater and Less take two numbers, Negate
\* one number, and raise a runtime error on anything else; Add takes two
\* numbers, or two strings whose concatenation it interns, and raises on
\* anything else; Equal and Not take values of any type and never raise.
C19_TypeRules ==
    /\ [][(Run /\ AtOpcode("Subtract")) =>
            IF BothNumbers THEN Yields(BelowOperands, Number(Lhs.n - Rhs.n))
            ELSE Raises]_vars
    /\ [][(Run /\ AtOpcode("Multiply")) =>
            IF BothNumbers THEN Yields(BelowOperands, Number(Lhs.n * Rhs.n))
            ELSE Raises]_vars
    /\ [][(Run /\ AtOpcode("Divide")) =>
            IF BothNumbers
            THEN \E q \in 0..Lhs.n :
                    q * Rhs.n = Lhs.n /\ Yields(BelowOperands, Number(q))
            ELSE Raises]_vars
    /\ [][(Run /\ AtOpcode("Greater")) =>
            IF BothNumbers THEN Yields(BelowOperands, Boolean(Lhs.n > Rhs.n))
            ELSE Raises]_vars
    /\ [][(Run /\ AtOpcode("Less")) =>
            IF BothNumbers THEN Yields(BelowOperands, Boolean(Lhs.n < Rhs.n))
            ELSE Raises]_vars
    /\ [][(Run /\ AtOpcode("Negate")) =>
            IF Rhs.tag = "Number"
            THEN Yields(Front(vm.stack), Number(0 - Rhs.n))
            ELSE Raises]_vars
    /\ [][(Run /\ AtOpcode("Add")) =>
            IF BothNumbers THEN Yields(BelowOperands, Number(Lhs.n + Rhs.n))
            ELSE IF BothStrings
            THEN /\ Yields(BelowOperands, LoxString(Lhs.s \o Rhs.s))
                 /\ (Lhs.s \o Rhs.s) \in Unwrap(ACTIVE_GC').strings
            ELSE Raises]_vars
    /\ [][(Run /\ AtOpcode("Equal")) =>
            \E b \in BOOLEAN :
                /\ Yields(BelowOperands, Boolean(b))
                /\ b => Lhs.tag = Rhs.tag]_vars
    /\ [][(Run /\ AtOpcode("Not")) =>
            Yields(Front(vm.stack),
                   Boolean(Rhs.tag = "Nil" \/ Rhs = Boolean(FALSE)))]_vars

\* print "a" + "b"; has executed its Add.
C19_Witness ==
    /\ phase = "running"
    /\ source = <<PrintKw, Lx("StrLiteral", <<"\"", "a", "\"">>), Plus,
                  Lx("StrLiteral", <<"\"", "b", "\"">>), Semicolon>>
    /\ vm.stack = <<LoxString(<<"a", "b">>)>>

\* A reference evaluator for expressions over integer literals, by splitting
\* at the operator that binds least.  Its values are Values, or RefError.
RefError == [tag |-> "Error", b |-> FALSE, n |-> 0, s |-> <<>>]

\* How tightly a binary operator binds: Equality < Comparison < Term < Factor.
RefLevel(token) ==
    CASE token \in {"EqualEqual", "BangEqual"} -> 1
      [] token \in {"Less", "LessEqual", "Greater", "GreaterEqual"} -> 2
      [] token \in {"Plus", "Minus"} -> 3
      [] token = "Star" -> 4
      [] OTHER -> 0

\* How many parentheses are open before token number i.
RefDepth(e, i) ==
    Cardinality({j \in 1..(i - 1) : e[j] = LeftParen})
        - Cardinality({j \in 1..(i - 1) : e[j] = RightParen})

\* The binary operators outside all parentheses: an operator token is binary
\* when it follows an operand.
RefBinaryAt(e) ==
    {i \in 2..Len(e) : /\ RefLevel(e[i].token) > 0
                       /\ RefDepth(e, i) = 0
                       /\ e[i - 1].token \in {"Number", "RightParen"}}

\* Where to split: the rightmost of the operators that bind least.
RefSplit(e) ==
    CHOOSE i \in RefBinaryAt(e) :
        \A j \in RefBinaryAt(e) :
            \/ RefLevel(e[j].token) > RefLevel(e[i].token)
            \/ RefLevel(e[j].token) = RefLevel(e[i].token) /\ j <= i

RefNot(v) == IF v = RefError THEN RefError ELSE Boolean(v = Nil \/ v = Boolean(FALSE))

RefArith(token, a, b) ==
    IF a.tag # "Number" \/ b.tag # "Number" THEN RefError
    ELSE CASE token = "Plus" -> Number(a.n + b.n)
           [] token = "Minus" -> Number(a.n - b.n)
           [] token = "Star" -> Number(a.n * b.n)
           [] token = "Less" -> Boolean(a.n < b.n)
           [] token = "Greater" -> Boolean(a.n > b.n)

RefBinary(token, a, b) ==
    IF a = RefError \/ b = RefError THEN RefError
    ELSE CASE token = "EqualEqual" -> Boolean(a = b)
           [] token = "BangEqual" -> RefNot(Boolean(a = b))
           [] token = "GreaterEqual" -> RefNot(RefArith("Less", a, b))
           [] token = "LessEqual" -> RefNot(RefArith("Greater", a, b))
           [] OTHER -> RefArith(token, a, b)

RECURSIVE RefEval(_)
RefEval(e) ==
    IF RefBinaryAt(e) # {}
    THEN RefBinary(e[RefSplit(e)].token,
                   RefEval(SubSeq(e, 1, RefSplit(e) - 1)),
                   RefEval(SubSeq(e, RefSplit(e) + 1, Len(e))))
    ELSE IF e[1] = Bang THEN RefNot(RefEval(Tail(e)))
    ELSE IF e[1] = Minus
    THEN LET v == RefEval(Tail(e)) IN
         IF v.tag = "Number" THEN Number(0 - v.n) ELSE RefError
    ELSE IF e[1] = LeftParen THEN RefEval(SubSeq(e, 2, Len(e) - 1))
    ELSE Number(parse_f64(e[1].text))

\* The statement is `print e;` on one line, e over integer literals.
PrintsIntExpression(text) ==
    /\ Len(text) > 2
    /\ text[1] = PrintKw
    /\ \A i \in 2..(Len(text) - 1) :
          \/ text[i] \in IntOperands \cup IntOps \cup UnaryOps
          \/ text[i] \in {LeftParen, RightParen}

\* C20: print e; for e over integer literals, parentheses, unary - and !,
\* and the binary operators + - * == != < <= > >= prints what the reference
\* evaluator computes, and raises a runtime error exactly when the reference
\* does; 1 + 2 * 3 is 7 and 1 - 2 - 3 is -4.
C20_ExpressionsAsReference ==
    /\ (phase = "returned" /\ PrintsIntExpression(source)) =>
          LET r == RefEval(SubSeq(source, 2, Len(source) - 1)) IN
          IF r = RefError
          THEN result = "RuntimeError" /\ vm.stdout = <<>>
          ELSE result = "Ok" /\ vm.stdout = <<display(r)>>
    /\ (/\ phase = "returned"
        /\ source = <<PrintKw, Num1, Plus, Num2, Lx("Star", <<"*">>), Num3,
                      Semicolon>>) =>
          vm.stdout = << <<"7">> >>
    /\ (/\ phase = "returned"
        /\ source = <<PrintKw, Num1, Minus, Num2, Minus, Num3, Semicolon>>) =>
          vm.stdout = << <<"-", "4">> >>

\* print 1 - 2 - 3; has printed -4.
C20_Witness ==
    /\ phase = "returned"
    /\ source = <<PrintKw, Num1, Minus, Num2, Minus, Num3, Semicolon>>
    /\ result = "Ok"
    /\ vm.stdout = << <<"-", "4">> >>

\* The interner that is active.
ActiveInterner == Unwrap(ACTIVE_GC)

\* C21: while an interner is active, storing a string equal to one already
\* stored returns the reference the first store returned and leaves the count
\* unchanged; a stored string keeps its reference, distinct strings have
\* distinct references, and n_strings is the number of distinct strings
\* stored since the interner was installed (0 right after install).
C21_Interning ==
    /\ [][(StoreString /\ IsSome(ACTIVE_GC)) =>
            /\ gc_call'.panic = ""
            /\ Unwrap(ACTIVE_GC').strings = ActiveInterner.strings \cup {gc_call'.str}
            /\ gc_call'.ref = Unwrap(ACTIVE_GC').refs[gc_call'.str]
            /\ \A t \in ActiveInterner.strings :
                  Unwrap(ACTIVE_GC').refs[t] = ActiveInterner.refs[t]
            /\ (gc_call'.str \in ActiveInterner.strings =>
                  /\ gc_call'.ref = ActiveInterner.refs[gc_call'.str]
                  /\ GC_n_strings(Unwrap(ACTIVE_GC')) = GC_n_strings(ActiveInterner))]_vars
    /\ [][(NStrings /\ IsSome(ACTIVE_GC)) =>
            /\ gc_call'.panic = ""
            /\ gc_call'.n = Cardinality(ActiveInterner.strings)
            /\ ACTIVE_GC' = ACTIVE_GC]_vars
    /\ [][Install => (IsSome(ACTIVE_GC') /\ Unwrap(ACTIVE_GC').strings = {})]_vars
    /\ [](IsSome(ACTIVE_GC) =>
            \A t, u \in ActiveInterner.strings :
                ActiveInterner.refs[t] = ActiveInterner.refs[u] => t = u)

\* "hello" was stored again while "a" and "hello" were stored: two strings.
C21_Witness ==
    /\ IsSome(ACTIVE_GC)
    /\ gc_call.op = "store_string"
    /\ gc_call.panic = ""
    /\ gc_call.str = <<"h", "e", "l", "l", "o">>
    /\ gc_call.ref = 1
    /\ ActiveInterner.strings = {<<"a">>, <<"h", "e", "l", "l", "o">>}

\* The offsets asked of get and line_number_for: those of the code, and one
\* past its end.
Offsets == 0..(Len(chunk.code) + 1)

\* C22: after any sequence of write_opcode and with_operand calls the code
\* and the line table are as long as each other, line_number_for is defined
\* exactly where get is, that is below len, and an operand byte carries the
\* line of the opcode written just before it.
C22_LinesFollowCode ==
    /\ [](/\ Len(chunk.code) = Len(chunk.lines)
          /\ \A offset \in Offsets :
                /\ IsSome(line_number_for(chunk, offset)) <=> IsSome(get(chunk, offset))
                /\ IsSome(get(chunk, offset)) <=> offset < Len(chunk.code))
    /\ [][WithOperand =>
            /\ Len(chunk.lines) > 0
            /\ Len(chunk'.code) = Len(chunk.code) + 1
            /\ Len(chunk'.lines) = Len(chunk.lines) + 1
            /\ SubSeq(chunk'.lines, 1, Len(chunk.lines)) = chunk.lines
            /\ chunk'.lines[Len(chunk.lines) + 1] = chunk.lines[Len(chunk.lines)]
            /\ as_opcode(chunk.code[Len(chunk.code)]) # None]_vars

\* Constant with operand 255 was written for line 2.
C22_Witness ==
    /\ chunk_ret.op = "with_operand"
    /\ chunk.code = <<as_u8("Constant"), U8_MAX>>
    /\ chunk.lines = <<2, 2>>

\* The opcodes that are followed by an operand byte, and those of them whose
\* operand is an index into the constant pool.
WithOperandByte ==
    {"Constant", "GetLocal", "SetLocal", "GetGlobal", "DefineGlobal", "SetGlobal"}
ConstantOperand == {"Constant", "GetGlobal", "DefineGlobal", "SetGlobal"}

\* The code of ch from `offset` on is whole instructions whose constant
\* operands are valid.
RECURSIVE ConstantOperandsValidFrom(_, _)
ConstantOperandsValidFrom(ch, offset) ==
    IF offset >= Len(ch.code) THEN TRUE
    ELSE LET opcode == as_opcode(ch.code[offset + 1]) IN
         IF opcode = None THEN FALSE
         ELSE IF Unwrap(opcode) \notin WithOperandByte
         THEN ConstantOperandsValidFrom(ch, offset + 1)
         ELSE /\ offset + 1 < Len(ch.code)
              /\ Unwrap(opcode) \in ConstantOperand =>
                    /\ ch.code[offset + 2] < Len(ch.constants)
                    /\ Unwrap(opcode) # "Constant" =>
                          ch.constants[ch.code[offset + 2] + 1].tag = "LoxString"
              /\ ConstantOperandsValidFrom(ch, offset + 2)

\* C23: in a chunk that compile returns with Ok, the operand of every
\* Constant, GetGlobal, SetGlobal and DefineGlobal is an index into the
\* constant pool, and the constant of a global instruction is a string: every
\* step of an error-free compilation appends whole instructions with such
\* operands, and leaves the code and the constants it found in place.
C23_ConstantOperandsValid ==
    [][(phase = "compiling" /\ ~c'.had_error /\ Running(c')) =>
          /\ ConstantOperandsValidFrom(c'.compiling_chunk,
                                       Len(c.compiling_chunk.code))
          /\ Len(c'.compiling_chunk.code) >= Len(c.compiling_chunk.code)
          /\ SubSeq(c'.compiling_chunk.code, 1, Len(c.compiling_chunk.code))
                = c.compiling_chunk.code
          /\ Len(c'.compiling_chunk.constants) >= Len(c.compiling_chunk.constants)
          /\ SubSeq(c'.compiling_chunk.constants, 1,
                    Len(c.compiling_chunk.constants))
                = c.compiling_chunk.constants
          /\ (phase' = "compiled" => compile_result(c') = "Ok")]_vars

\* The program of global statements with 256 constants was compiled with Ok:
\* its last statement has operand 255.
C23_Witness ==
    /\ phase = "running"
    /\ source = GlobalsProgram(U8_COUNT)
    /\ Len(chunk.constants) = U8_COUNT
    /\ U8_MAX \in {chunk.code[i] : i \in 1..Len(chunk.code)}

C25_EndOfInputEndsRepl ==
    [][(repl.at = "loop" /\ repl.stdin = <<>> /\ repl'.prompts > repl.prompts)
        => repl'.at = "returned"]_vars

\* C26: while the VM executes a chunk that compile returned, pop never
\* meets an empty stack and no GetLocal or SetLocal operand indexes past the
\* top of the stack: run ends with Ok or RuntimeError and never panics,
\* programs that assign to local variables included.
C26_RunNeverPanics == vm.status # "panic"

\* The VM after it has run the code from v.ip to the end of the code the
\* compiler has emitted so far, or to the first runtime error or panic.
RECURSIVE RunEmitted(_, _)
RunEmitted(v, ch) ==
    IF ~VmRunning(v) \/ v.ip >= Len(ch.code)
    THEN Continue(v)
    ELSE IF IsSome(run_step(v, ch).ret)
         THEN run_step(v, ch)
         ELSE RunEmitted(run_step(v, ch).v, ch)

\* The runtime stack when the VM reaches the instruction the compiler is
\* about to emit.
StackAtEmission == RunEmitted(VmWithChunk_new(c.gc), c.compiling_chunk).v.stack

\* The compiler stands between two declarations of a program without error,
\* and the code emitted so far runs without runtime error.
BetweenDeclarations ==
    /\ phase = "compiling"
    /\ Running(c)
    /\ ~c.had_error
    /\ ~IsSome(RunEmitted(VmWithChunk_new(c.gc), c.compiling_chunk).ret)

\* C27: at every instruction the live locals have their values at the stack
\* indices equal to their slot numbers, temporaries strictly above them:
\* between two declarations, where no temporary is left, the runtime stack
\* holds exactly one value for each entry of the compiler's locals.
C27_LocalsAtTheirSlots ==
    BetweenDeclarations => Len(StackAtEmission) = Len(c.locals)

\* error_at on the compiler c0 reports: it sets both flags and writes one
\* message; a further error is dropped while panic_mode is set; synchronize
\* clears panic_mode and leaves had_error.
ErrorAtReports(c0) ==
    LET reported == error_at(c0, c0.current, "Expect expression")
    IN  /\ reported.had_error
        /\ reported.panic_mode
        /\ Len(reported.stderr) = Len(c0.stderr) + 1
        /\ error_at(reported, reported.previous, "Expect ';' after value") = reported
        /\ ~synchronize(reported).panic_mode
        /\ synchronize(reported).had_error
        /\ synchronize(reported).stderr = reported.stderr

\* C28: an error that is reported sets had_error and panic_mode; while
\* panic_mode is set further errors are dropped, so that one declaration
\* writes at most one message; had_error is never cleared; synchronize clears
\* panic_mode, so that every later declaration starts with panic_mode clear
\* and has its first error reported again.
C28_ErrorFlags ==
    /\ []((phase = "compiling" /\ Running(c)) => (~c.panic_mode /\ ErrorAtReports(c)))
    /\ [][phase = "compiling"
            => /\ Len(c'.stderr) <= Len(c.stderr) + 1
               /\ Len(c'.stderr) > Len(c.stderr) => c'.had_error
               /\ c.had_error => c'.had_error
               /\ c'.had_error = (Len(c'.stderr) > 0)]_vars

\* Two faulty declarations have been compiled and each has its message.
C28_Witness ==
    /\ phase = "compiling"
    /\ Running(c)
    /\ c.had_error
    /\ Len(c.stderr) = 2
    /\ c.stderr[1].line < c.stderr[2].line

\* The local was declared in a scope deeper than depth.
DeclaredBeyond(local, depth) == IsSome(local.depth) /\ Unwrap(local.depth) > depth

\* The locals of the list that a scope of the given depth keeps.
LocalsWithin(locals, depth) ==
    SelectSeq(locals, LAMBDA local : ~DeclaredBeyond(local, depth))

\* n Pop instructions
Pops(n) == [i \in 1..n |-> as_u8("Pop")]

\* The text has more opening than closing braces.
UnclosedBlock(text) ==
    Cardinality({i \in DOMAIN text : text[i].token = "LeftBrace"})
        > Cardinality({i \in DOMAIN text : text[i].token = "RightBrace"})

\* C29: closing a block decrements scope_depth, removes from the end of the
\* locals exactly those whose depth is greater than the new scope_depth and
\* emits one Pop for each; scope_depth is never negative; when compile
\* finishes scope_depth is 0 and no local is left, also when the input ended
\* inside a block.
C29_BlocksCloseTheirLocals ==
    /\ [][BlockEnd
            => /\ c'.scope_depth = c.scope_depth - 1
               /\ c'.locals = LocalsWithin(c.locals, c'.scope_depth)
               /\ c'.locals = SubSeq(c.locals, 1, Len(c'.locals))
               /\ c'.compiling_chunk.code
                    = c.compiling_chunk.code \o Pops(Len(c.locals) - Len(c'.locals))]_vars
    /\ [](c.scope_depth >= 0)
    /\ []((phase = "compiled") => (c.scope_depth = 0 /\ c.locals = <<>>))

\* compile has finished on an input that ended inside a block, after Pops
\* for the locals of two blocks.
C29_Witness ==
    /\ phase = "compiled"
    /\ UnclosedBlock(source)
    /\ c.scope_depth = 0
    /\ c.locals = <<>>
    /\ Cardinality({i \in DOMAIN c.compiling_chunk.code :
                        c.compiling_chunk.code[i] = as_u8("Pop")}) >= 2

\* C30: whenever define_variable runs at scope depth > 0 the last local is
\* the one the same var statement declared, still uninitialized: a var
\* statement in a block never trips the assertion of initialize_scope_with,
\* and when it ends it has added one local, initialized at the current
\* depth, and left every older local as it was.
C30_MarkInitializedOnOwnLocal ==
    [][(Declaration /\ InBlock /\ c.current.token = Var.token)
        => /\ c'.panic_msg # "assertion failed: self.is_uninitialized()"
           /\ Running(c')
                => /\ Len(c'.locals) = Len(c.locals) + 1
                   /\ SubSeq(c'.locals, 1, Len(c.locals)) = c.locals
                   /\ Last(c'.locals).depth = Some(c.scope_depth)]_vars

====
